---- MODULE Spec2Model ----
(***************************************************************************)
(* A model of the tailwind extractor: the file-set pipeline of lib.rs      *)
(* (output path validation, discovery, security gate, parallel dispatch,   *)
(* fail-fast collection, event dedup, registry merge, atomic output        *)
(* write), the string-literal visitor of ast_visitor.rs, the registry of   *)
(* extractor.rs, the class-string rewriter of class_processor.rs and       *)
(* processor.rs, the tree mutator of ast_mutator.rs and the manifest of    *)
(* manifest.rs.                                                            *)
(*                                                                         *)
(* Strings are sequences of one-character strings, so that trimming,       *)
(* splitting on whitespace and character validation are computed as the    *)
(* code computes them.                                                     *)
(***************************************************************************)
EXTENDS Integers, Sequences, FiniteSets, TLC

VARIABLES
    \* ---- extract() pipeline (lib.rs) ----
    disk,          \* candidate path -> what the file system holds there
    args,          \* ExtractArgs
    pc,            \* position of extract()
    globbed,       \* TRUE once an include pattern has been expanded
    files,         \* validated file list (collect_files_with_security)
    skipped,       \* candidates the security gate rejected
    task,          \* per-file task state of the parallel map
    taskEvents,    \* per-file Ok(Vec<ExtractedString>) of a finished task
    readSet,       \* files whose metadata/content a task has touched
    firstErr,      \* the error the parallel collect keeps
    extracted,     \* all_strings after flatten + dedup
    rawEvents,     \* every event any traversal produced (before dedup)
    fileClasses,   \* file_classes groups not yet added to the extractor
    classes,       \* TailwindExtractor.classes (IndexMap, insertion order)
    outWritten,    \* output files written by write_output_files
    result,        \* what extract() returned
    \* ---- validate_output_path (lib.rs) ----
    vpath, vexisting, vverdict,
    \* ---- write_atomic (lib.rs) ----
    fs, wpath, wcontent, wprior, wpc, wwritten,
    \* ---- process_with_fallback (class_processor.rs, processor.rs) ----
    rin, robf, rout, rout2, rpc,
    \* ---- TailwindAstMutator (ast_mutator.rs) ----
    context_stack,      \* ContextStack.stack
    lvalue, lverdict,   \* argument and answer of looks_like_classes
    class_variables,    \* VariableTracker.class_variables
    mut_obfuscate,      \* TailwindAstMutator.obfuscate
    module,             \* the parsed module: its tree and the original literal values
    todo,               \* the handlers still to run or to return, innermost first
    strs,               \* string literal -> its current value
    calls,              \* the calls of process_with_fallback made so far, in order
    transformed_count,  \* TailwindAstMutator.transformed_count
    ret,                \* stack at entry and at return of the handler that returned last
    mpc,                \* what the mutator is doing
    \* ---- obfuscation (extractor.rs) ----
    ocfg,               \* ObfuscationConfig: seed and prefix
    oreg,               \* TailwindExtractor.classes
    omap,               \* TailwindExtractor.obfuscation_map
    olog,               \* every call of obfuscate_class made so far, with its alias
    oman,               \* what the call made last returned, if it was a manifest
    opc,                \* the call of the extractor made last
    \* ---- extract_strings_parallel_with_progress (lib.rs) ----
    pbar,               \* TRUE when a progress bar is attached
    pkind,              \* dispatched file -> what the file is
    ptask,              \* dispatched file -> position of its closure
    processed,          \* the shared counter behind the mutex
    holder,             \* the task that holds the mutex, 0 when free
    pb_position,        \* the position the progress bar shows
    pb_last,            \* the position it showed before the last set_position
    incs,               \* dispatched file -> increments its task has made
    \* ---- transform_source (ast_transformer.rs) ----
    tsrc,               \* the source: whether it parses, its tree, its literals
    tobf,               \* TransformConfig.obfuscate
    tret,               \* what transform_source returned
    tpc

pipeVars == <<disk, args, pc, globbed, files, skipped, task, taskEvents, readSet,
              firstErr, extracted, rawEvents, fileClasses, classes, outWritten, result>>
pathVars == <<vpath, vexisting, vverdict>>
writeVars == <<fs, wpath, wcontent, wprior, wpc, wwritten>>
rewriteVars == <<rin, robf, rout, rout2, rpc>>
walkVars == <<class_variables, mut_obfuscate, module, todo, strs, calls, transformed_count, ret>>
mutVars == <<context_stack, lvalue, lverdict, mpc, walkVars>>
obfVars == <<ocfg, oreg, omap, olog, oman, opc>>
progVars == <<pbar, pkind, ptask, processed, holder, pb_position, pb_last, incs>>
xformVars == <<tsrc, tobf, tret, tpc>>
vars == <<pipeVars, pathVars, writeVars, rewriteVars, mutVars, obfVars, progVars, xformVars>>

None == "none"

(***************************************************************************)
(* Strings                                                                 *)
(***************************************************************************)
SP == " "
TAB == "\t"
NL == "\n"

\* char::is_whitespace, restricted to the characters of the model
is_whitespace(c) == c \in {SP, TAB, NL}

RECURSIVE DropLeadingWs(_)
DropLeadingWs(s) ==
    IF s = <<>> THEN <<>>
    ELSE IF is_whitespace(Head(s)) THEN DropLeadingWs(Tail(s)) ELSE s

RECURSIVE DropTrailingWs(_)
DropTrailingWs(s) ==
    IF s = <<>> THEN <<>>
    ELSE IF is_whitespace(s[Len(s)]) THEN DropTrailingWs(SubSeq(s, 1, Len(s) - 1)) ELSE s

\* str::trim
trim(s) == DropTrailingWs(DropLeadingWs(s))

\* str::split_whitespace: the maximal runs of non-whitespace characters
RECURSIVE SplitFrom(_, _, _)
SplitFrom(s, cur, acc) ==
    IF s = <<>> THEN (IF cur = <<>> THEN acc ELSE Append(acc, cur))
    ELSE IF is_whitespace(Head(s))
         THEN SplitFrom(Tail(s), <<>>, IF cur = <<>> THEN acc ELSE Append(acc, cur))
         ELSE SplitFrom(Tail(s), Append(cur, Head(s)), acc)

split_whitespace(s) == SplitFrom(s, <<>>, <<>>)

\* [String]::join(" ")
RECURSIVE JoinSp(_)
JoinSp(toks) ==
    IF toks = <<>> THEN <<>>
    ELSE IF Len(toks) = 1 THEN toks[1]
    ELSE toks[1] \o <<SP>> \o JoinSp(Tail(toks))

Contains(s, c) == \E i \in 1..Len(s) : s[i] = c

(***************************************************************************)
(* The class-compiler oracle (tailwind_rs::TailwindBuilder::trace).  It    *)
(* works on whitespace-delimited tokens: a token it recognises is          *)
(* rewritten (renamed when obfuscating), an unrecognised token is passed   *)
(* through, the results are joined by single spaces, and a malformed       *)
(* token (an unclosed arbitrary-value bracket) makes the whole call fail.  *)
(***************************************************************************)
TraceTokenFails(tok) == Contains(tok, "[") /\ ~Contains(tok, "]")

IsUtilityToken(tok) == tok # <<>> /\ Head(tok) \in {"p", "f"}

classify(tok, obfuscate) ==
    IF obfuscate /\ IsUtilityToken(tok) THEN <<"_">> \o tok ELSE tok

trace(style, obfuscate) ==
    LET toks == split_whitespace(style) IN
    IF \E i \in 1..Len(toks) : TraceTokenFails(toks[i])
    THEN [ok |-> FALSE, val |-> <<>>]
    ELSE [ok |-> TRUE,
          val |-> JoinSp([i \in 1..Len(toks) |-> classify(toks[i], obfuscate)])]

(***************************************************************************)
(* The rewriter, class_processor.rs                                        *)
(***************************************************************************)
\* class_string.find(|c| !c.is_whitespace()).unwrap_or(0)
content_start(s) ==
    IF \E i \in 1..Len(s) : ~is_whitespace(s[i])
    THEN (CHOOSE i \in 1..Len(s) :
            ~is_whitespace(s[i]) /\ \A j \in 1..(i - 1) : is_whitespace(s[j])) - 1
    ELSE 0

\* class_string.rfind(|c| !c.is_whitespace()).map(|i| i + 1).unwrap_or(len)
content_end(s) ==
    IF \E i \in 1..Len(s) : ~is_whitespace(s[i])
    THEN CHOOSE i \in 1..Len(s) :
            ~is_whitespace(s[i]) /\ \A j \in (i + 1)..Len(s) : is_whitespace(s[j])
    ELSE Len(s)

\* a rewriter whose error arm returns nothing instead of the original
process_with_fallback_DropOnError(class_string, obfuscate) ==
    LET trimmed == trim(class_string)
        leading_space == SubSeq(class_string, 1, content_start(class_string))
        trailing_space == SubSeq(class_string, content_end(class_string) + 1,
                                 Len(class_string))
        r == trace(trimmed, obfuscate)
    IN  IF trimmed = <<>> THEN class_string
        ELSE IF r.ok THEN leading_space \o r.val \o trailing_space
        ELSE <<>>

process_with_fallback(class_string, obfuscate) ==
    LET trimmed == trim(class_string)
        leading_space == SubSeq(class_string, 1, content_start(class_string))
        trailing_space == SubSeq(class_string, content_end(class_string) + 1,
                                 Len(class_string))
        r == trace(trimmed, obfuscate)
    IN  IF trimmed = <<>> THEN class_string
        ELSE IF r.ok THEN leading_space \o r.val \o trailing_space
        ELSE class_string

(***************************************************************************)
(* The rewriter, processor.rs: the oracle is called on the untrimmed       *)
(* string and its answer is returned as it is.                             *)
(***************************************************************************)
processor_process_with_fallback(class_string, obfuscate) ==
    LET r == trace(class_string, obfuscate)
    IN  IF r.ok THEN r.val ELSE class_string

\* ---- specification of the rewriter: every short string, both flags ----
MaxStrLen == 4
RewriteAlphabet == {SP, TAB, NL, "p", "["}

RECURSIVE StringsUpTo(_, _)
StringsUpTo(alphabet, n) ==
    IF n = 0 THEN {<<>>}
    ELSE LET shorter == StringsUpTo(alphabet, n - 1) IN
         shorter \cup {Append(s, c) : s \in {t \in shorter : Len(t) = n - 1}, c \in alphabet}

PipeIdle ==
    /\ disk = <<>> /\ args = None /\ pc = "off" /\ globbed = FALSE
    /\ files = <<>> /\ skipped = {} /\ task = <<>> /\ taskEvents = <<>>
    /\ readSet = {} /\ firstErr = None /\ extracted = <<>> /\ rawEvents = {}
    /\ fileClasses = {} /\ classes = <<>> /\ outWritten = {} /\ result = None
PathIdle == vpath = None /\ vexisting = {} /\ vverdict = None
WriteIdle ==
    /\ fs = <<>> /\ wpath = None /\ wcontent = <<>> /\ wprior = None
    /\ wpc = "off" /\ wwritten = 0
RewriteIdle == rin = <<>> /\ robf = FALSE /\ rout = None /\ rout2 = None /\ rpc = "off"
MutIdle ==
    /\ context_stack = <<>> /\ lvalue = <<>> /\ lverdict = FALSE /\ mpc = "off"
    /\ class_variables = {} /\ mut_obfuscate = FALSE /\ module = <<>> /\ todo = <<>>
    /\ strs = <<>> /\ calls = <<>> /\ transformed_count = 0 /\ ret = <<>>
ProgIdle ==
    /\ pbar = FALSE /\ pkind = <<>> /\ ptask = <<>> /\ processed = 0 /\ holder = 0
    /\ pb_position = 0 /\ pb_last = 0 /\ incs = <<>>
XformIdle == tsrc = <<>> /\ tobf = FALSE /\ tret = <<>> /\ tpc = "off"
ObfIdle ==
    ocfg = None /\ oreg = <<>> /\ omap = <<>> /\ olog = {} /\ oman = <<>> /\ opc = "off"

InitRewrite ==
    /\ PipeIdle /\ PathIdle /\ WriteIdle /\ MutIdle /\ ObfIdle /\ ProgIdle /\ XformIdle
    /\ rin \in StringsUpTo(RewriteAlphabet, MaxStrLen)
    /\ robf \in BOOLEAN
    /\ rout = None /\ rout2 = None
    /\ rpc = "ready"

\* one call of each variant on the same input
Rewrite ==
    /\ rpc = "ready"
    /\ rout' = process_with_fallback(rin, robf)
    /\ rout2' = processor_process_with_fallback(rin, robf)
    /\ rpc' = "done"
    /\ UNCHANGED <<rin, robf, pipeVars, pathVars, writeVars, mutVars, obfVars, progVars, xformVars>>

NextRewrite == Rewrite
SpecRewrite == InitRewrite /\ [][NextRewrite]_vars

LeadingWs(s) == SubSeq(s, 1, Len(s) - Len(DropLeadingWs(s)))
TrailingWs(s) == SubSeq(s, Len(DropTrailingWs(s)) + 1, Len(s))

SameEdgeWhitespace(s, out) ==
    /\ LeadingWs(out) = LeadingWs(s)
    /\ TrailingWs(out) = TrailingWs(s)
    /\ (trim(s) = <<>> => out = s)

\* C10: process_with_fallback(s) has exactly the leading and trailing whitespace
\* of s, oracle success or failure, and returns an empty or whitespace-only s
\* unchanged -- stated of both implementations of process_with_fallback.
C10_WhitespacePreserved ==
    rpc = "done" =>
        /\ SameEdgeWhitespace(rin, rout)
        /\ SameEdgeWhitespace(rin, rout2)

\* the same property of the class_processor.rs implementation alone
ClassProcessorPreservesWhitespace ==
    rpc = "done" => SameEdgeWhitespace(rin, rout)

(***************************************************************************)
(* validate_output_path (lib.rs).  A path is a flag (absolute or relative) *)
(* and its components; the file system is the set of absolute locations    *)
(* that exist.  The process runs in the working directory, which is what   *)
(* SecurityConfig::default() records as working_directory.                 *)
(***************************************************************************)
MaxPathLen == 2
PathComponents == {"w", "o", "d", "f", ".."}

\* SecurityConfig::default().working_directory = current_dir()
working_directory == [abs |-> TRUE, comps |-> <<"w">>]

IsPrefix(p, q) == Len(p) <= Len(q) /\ SubSeq(q, 1, Len(p)) = p

\* the location a path names: relative paths start in the working directory
\* and each ".." steps to the parent
RECURSIVE Walk(_, _)
Walk(cur, comps) ==
    IF comps = <<>> THEN cur
    ELSE IF Head(comps) = ".."
         THEN Walk(IF cur = <<>> THEN <<>> ELSE SubSeq(cur, 1, Len(cur) - 1), Tail(comps))
         ELSE Walk(Append(cur, Head(comps)), Tail(comps))

Resolve(path) ==
    Walk(IF path.abs THEN <<>> ELSE working_directory.comps, path.comps)

\* every directory entered on the way exists
RECURSIVE WalkExists(_, _, _)
WalkExists(cur, comps, existing) ==
    IF comps = <<>> THEN TRUE
    ELSE IF Head(comps) = ".."
         THEN WalkExists(IF cur = <<>> THEN <<>> ELSE SubSeq(cur, 1, Len(cur) - 1),
                         Tail(comps), existing)
         ELSE /\ Append(cur, Head(comps)) \in existing
              /\ WalkExists(Append(cur, Head(comps)), Tail(comps), existing)

\* Path::canonicalize: the absolute location, an error when it does not exist
canonicalize(path, existing) ==
    IF WalkExists(IF path.abs THEN <<>> ELSE working_directory.comps, path.comps, existing)
    THEN [ok |-> TRUE, val |-> [abs |-> TRUE, comps |-> Resolve(path)]]
    ELSE [ok |-> FALSE, val |-> path]

\* Path::starts_with compares whole components, the root included
starts_with(path, base) == path.abs = base.abs /\ IsPrefix(base.comps, path.comps)

is_relative(path) == ~path.abs

validate_output_path(path, existing) ==
    LET c == canonicalize(path, existing)
        canonical == IF c.ok THEN c.val ELSE path
        w == canonicalize(working_directory, existing)
        working_dir == IF w.ok THEN w.val ELSE working_directory
    IN  IF ~starts_with(canonical, working_dir) /\ is_relative(path)
        THEN "SecurityError"
        ELSE "Ok"

RECURSIVE SeqsUpTo(_, _)
SeqsUpTo(S, n) ==
    IF n = 0 THEN {<<>>}
    ELSE LET shorter == SeqsUpTo(S, n - 1) IN
         shorter \cup {Append(s, c) : s \in {t \in shorter : Len(t) = n - 1}, c \in S}

OutputPaths ==
    {[abs |-> a, comps |-> c] : a \in BOOLEAN,
                                c \in SeqsUpTo(PathComponents, MaxPathLen) \ {<<>>}}

\* the two root directories always exist; files and the sub-directory may
AlwaysExisting == {<<"w">>, <<"o">>}
MayExist == {<<"w", "f">>, <<"w", "d">>, <<"o", "f">>}
ExistingSets == {AlwaysExisting \cup S : S \in SUBSET MayExist}

InitPath ==
    /\ PipeIdle /\ WriteIdle /\ RewriteIdle /\ MutIdle /\ ObfIdle /\ ProgIdle /\ XformIdle
    /\ vpath \in OutputPaths
    /\ vexisting \in ExistingSets
    /\ vverdict = None

ValidateOutputPath ==
    /\ vverdict = None
    /\ vverdict' = validate_output_path(vpath, vexisting)
    /\ UNCHANGED <<vpath, vexisting, pipeVars, writeVars, rewriteVars, mutVars, obfVars, progVars, xformVars>>

NextPath == ValidateOutputPath
SpecPath == InitPath /\ [][NextPath]_vars

InsideWorkingDirectory(path) == IsPrefix(working_directory.comps, Resolve(path))

\* C5: an output path whose resolved location lies under the working
\* directory, absolute or relative, existing or not, is never rejected with
\* SecurityError.
C5_InsidePathAccepted ==
    (vverdict # None /\ InsideWorkingDirectory(vpath)) => vverdict = "Ok"

\* what the code does accept among the inside paths: the absolute ones and the
\* relative ones whose target already exists
InsideAcceptedWhenAbsoluteOrExisting ==
    (vverdict # None /\ InsideWorkingDirectory(vpath)
        /\ (vpath.abs \/ canonicalize(vpath, vexisting).ok))
    => vverdict = "Ok"

(***************************************************************************)
(* write_output_files and write_atomic (lib.rs).  A file name is the       *)
(* sequence of its dot-separated parts ("out.css" is <<"out", "css">>,     *)
(* "out..tmp" is <<"out", "", "tmp">>); the directory holds, per name,     *)
(* the bytes of the file or NoFile.                                        *)
(***************************************************************************)
\* no file under that name (no byte sequence of a file contains -1)
NoFile == <<-1>>
MaxContentLen == 2
OldContent == <<0>>

\* Path::file_stem: the name without its last dot-part, the whole name when
\* there is no dot or only a leading one
file_stem(name) ==
    IF Len(name) = 1 \/ (Len(name) = 2 /\ name[1] = "") THEN name
    ELSE SubSeq(name, 1, Len(name) - 1)

\* a temporary path that is the output path itself
with_extension_tmp_InPlace(name) == name

\* path.with_extension(".tmp"): stem + "." + ".tmp"
with_extension_tmp(name) == file_stem(name) \o <<"", "tmp">>

OutputNames == {<<"out", "css">>, <<"out", "json">>, <<"out", "", "tmp">>, <<"out">>}
DirNames == OutputNames \cup {with_extension_tmp(n) : n \in OutputNames}

NewContents == {[i \in 1..n |-> i] : n \in 0..MaxContentLen}

\* args.output_css # args.output_manifest is what ExtractArgs::validate leaves
InitWrite ==
    /\ PipeIdle /\ PathIdle /\ RewriteIdle /\ MutIdle /\ ObfIdle /\ ProgIdle /\ XformIdle
    /\ fs \in [DirNames -> {NoFile, OldContent}]
    /\ \E css \in OutputNames, manifest \in OutputNames, c1 \in NewContents :
          /\ css # manifest
          /\ wpath = <<[path |-> css, content |-> c1],
                       [path |-> manifest, content |-> <<7>>]>>
    /\ wcontent = <<>> /\ wprior = None /\ wpc = "idle" /\ wwritten = 0

\* the write in progress (head of the queue of write_output_files)
CurPath == wpath[1].path
temp_path == with_extension_tmp(CurPath)

\* write_output_files calls write_atomic for the CSS, then for the manifest
WriteAtomicCall ==
    /\ wpc = "idle" /\ wpath # <<>>
    /\ wcontent' = wpath[1].content
    /\ wprior' = fs[CurPath]
    /\ wwritten' = 0
    /\ wpc' = "create"
    /\ UNCHANGED <<fs, wpath, pipeVars, pathVars, rewriteVars, mutVars, obfVars, progVars, xformVars>>

\* fs::File::create(&temp_path): creates or truncates
CreateTemp ==
    /\ wpc = "create"
    /\ fs' = [fs EXCEPT ![temp_path] = <<>>]
    /\ wpc' = "write"
    /\ UNCHANGED <<wpath, wcontent, wprior, wwritten, pipeVars, pathVars, rewriteVars, mutVars, obfVars, progVars, xformVars>>

\* file.write_all: the bytes reach the file in one or more writes
WriteChunk ==
    /\ wpc = "write" /\ wwritten < Len(wcontent)
    /\ \E k \in 1..(Len(wcontent) - wwritten) :
          /\ fs' = [fs EXCEPT ![temp_path] = @ \o SubSeq(wcontent, wwritten + 1, wwritten + k)]
          /\ wwritten' = wwritten + k
    /\ UNCHANGED <<wpath, wcontent, wprior, wpc, pipeVars, pathVars, rewriteVars, mutVars, obfVars, progVars, xformVars>>

\* file.sync_all
SyncAll ==
    /\ wpc = "write" /\ wwritten = Len(wcontent)
    /\ wpc' = "rename"
    /\ UNCHANGED <<fs, wpath, wcontent, wprior, wwritten, pipeVars, pathVars, rewriteVars, mutVars, obfVars, progVars, xformVars>>

\* fs::rename(&temp_path, path): the temporary name goes, the final name
\* holds its bytes; then write_atomic returns Ok and the next write starts
Rename ==
    /\ wpc = "rename"
    /\ fs' = [n \in DOMAIN fs |->
                IF n = CurPath THEN fs[temp_path]
                ELSE IF n = temp_path THEN NoFile ELSE fs[n]]
    /\ wpc' = "renamed"
    /\ UNCHANGED <<wpath, wcontent, wprior, wwritten, pipeVars, pathVars, rewriteVars, mutVars, obfVars, progVars, xformVars>>

WriteAtomicReturn ==
    /\ wpc = "renamed"
    /\ wpath' = Tail(wpath)
    /\ wpc' = "idle"
    /\ UNCHANGED <<fs, wcontent, wprior, wwritten, pipeVars, pathVars, rewriteVars, mutVars, obfVars, progVars, xformVars>>

\* any of create, write, sync, rename fails: write_atomic returns the error
\* and write_output_files maps it to OutputError, the later write not started
IoError ==
    /\ wpc \in {"create", "write", "rename"}
    /\ wpc' = "failed"
    /\ UNCHANGED <<fs, wpath, wcontent, wprior, wwritten, pipeVars, pathVars, rewriteVars, mutVars, obfVars, progVars, xformVars>>

\* the process is interrupted at any step
Crash ==
    /\ wpc \in {"create", "write", "rename"}
    /\ wpc' = "crashed"
    /\ UNCHANGED <<fs, wpath, wcontent, wprior, wwritten, pipeVars, pathVars, rewriteVars, mutVars, obfVars, progVars, xformVars>>

NextWrite ==
    \/ WriteAtomicCall \/ CreateTemp \/ WriteChunk \/ SyncAll \/ Rename
    \/ WriteAtomicReturn \/ IoError \/ Crash
SpecWrite == InitWrite /\ [][NextWrite]_vars

InWriteAtomic == wpc \notin {"idle", "off"} /\ wpath # <<>>

\* C1: while write_atomic writes new content to an output path -- temp file
\* created, partially written, synced, renamed, failed or interrupted at any
\* step -- the final path holds the complete prior content (or is absent as
\* before) or the complete new content; before the rename it is the prior one.
C1_NoPartialFinalFile ==
    InWriteAtomic =>
        /\ fs[CurPath] \in {wprior, wcontent}
        /\ (wpc \in {"create", "write", "rename"} => fs[CurPath] = wprior)
        /\ (wpc = "renamed" => fs[CurPath] = wcontent)

\* a crash with the temporary file partially written, final path untouched
C1_Witness ==
    /\ wpc = "crashed"
    /\ wprior = OldContent
    /\ fs[temp_path] # NoFile
    /\ Len(fs[temp_path]) > 0 /\ Len(fs[temp_path]) < Len(wcontent)
    /\ fs[CurPath] = OldContent

(***************************************************************************)
(* The visitor of ast_visitor.rs.  A parsed file is the sequence of its    *)
(* string literals, each with its kind, the line and column of its span    *)
(* and its value.                                                          *)
(***************************************************************************)
Range(seq) == {seq[i] : i \in 1..Len(seq)}

\* StringLiteralExtractor::extract_string: one ExtractedString per
\* whitespace-delimited token, all located at the start of the literal's span
extract_string(value, line, column, file_path) ==
    LET toks == split_whitespace(value) IN
    [i \in 1..Len(toks) |->
        [value |-> toks[i], file_path |-> file_path, line |-> line, column |-> column]]

\* visit_str reaches a plain literal once; visit_jsx_attr extracts a literal
\* attribute value and then visits the attribute's children, which reaches
\* the same literal again through visit_str
VisitLiteral(lit, file_path) ==
    LET once == extract_string(lit.value, lit.line, lit.column, file_path) IN
    IF lit.kind = "JsxAttrStr" THEN once \o once ELSE once

RECURSIVE VisitModule(_, _)
VisitModule(literals, file_path) ==
    IF literals = <<>> THEN <<>>
    ELSE VisitLiteral(Head(literals), file_path) \o VisitModule(Tail(literals), file_path)

\* content.len() < 10: too small to hold anything, not parsed
MinParseLen == 10

\* a reader that recovers from a syntax error with no strings instead of an error
extract_strings_from_file_Lenient(file, file_path) ==
    IF ~file.readable THEN [ok |-> FALSE, val |-> <<>>]
    ELSE IF file.len < 10 \/ ~file.parses THEN [ok |-> TRUE, val |-> <<>>]
    ELSE [ok |-> TRUE, val |-> VisitModule(file.literals, file_path)]

\* extract_strings_from_file: read, early return for tiny content, parse, visit
extract_strings_from_file(file, file_path) ==
    IF ~file.readable THEN [ok |-> FALSE, val |-> <<>>]
    ELSE IF file.len < MinParseLen THEN [ok |-> TRUE, val |-> <<>>]
    ELSE IF ~file.parses THEN [ok |-> FALSE, val |-> <<>>]
    ELSE [ok |-> TRUE, val |-> VisitModule(file.literals, file_path)]

\* the closure of the parallel map in extract_strings_parallel_with_progress:
\* an empty file is skipped before it is read
ProcessFile(file, file_path) ==
    IF file.meta_ok /\ file.len = 0 THEN [ok |-> TRUE, val |-> <<>>]
    ELSE extract_strings_from_file(file, file_path)

\* no deduplication: the flattened stream as it is
DedupEvents_Keep(events) == events

\* "Deduplicate at the source": keep the first event of every
\* (value, file_path, line, column)
RECURSIVE DedupFrom(_, _, _)
DedupFrom(events, seen, acc) ==
    IF events = <<>> THEN acc
    ELSE IF Head(events) \in seen THEN DedupFrom(Tail(events), seen, acc)
    ELSE DedupFrom(Tail(events), seen \cup {Head(events)}, Append(acc, Head(events)))

DedupEvents(events) == DedupFrom(events, {}, <<>>)

(***************************************************************************)
(* The class registry of extractor.rs                                      *)
(***************************************************************************)
MaxClassLen == 100
Alphanumerics ==
    {"a", "b", "c", "d", "e", "f", "g", "h", "i", "j", "k", "l", "m", "n", "o", "p",
     "q", "r", "s", "t", "u", "v", "w", "x", "y", "z",
     "0", "1", "2", "3", "4", "5", "6", "7", "8", "9"}
DangerousChars == {"<", ">", "{", "}", ";"}
ClassPunctuation == {"-", ":", "/", ".", "[", "]", "!", "(", ")", "#", "%", "&", "*", "_", "@"}

is_valid_class(class) ==
    /\ ~(Len(class) > MaxClassLen)
    /\ ~\E i \in 1..Len(class) : class[i] \in DangerousChars
    /\ \A i \in 1..Len(class) : class[i] \in Alphanumerics \cup ClassPunctuation

IndexOfClass(registry, class) ==
    IF \E i \in 1..Len(registry) : registry[i].key = class
    THEN CHOOSE i \in 1..Len(registry) : registry[i].key = class
    ELSE 0

\* an add_class that records the file only when the class is new
add_class_FirstFileOnly(registry, class, file_path) ==
    IF class = <<>> \/ ~is_valid_class(class) THEN registry
    ELSE IF ~trace(class, FALSE).ok THEN registry
    ELSE LET i == IndexOfClass(registry, class) IN
         IF i = 0
         THEN Append(registry, [key |-> class, original |-> class, obfuscated |-> <<>>,
                                count |-> 1, files |-> <<file_path>>])
         ELSE [registry EXCEPT ![i].count = @ + 1]

\* an add_class without the checks of the class
add_class_Unchecked(registry, class, file_path) ==
    LET i == IndexOfClass(registry, class)
        entered == IF i = 0
                   THEN Append(registry, [key |-> class, original |-> class,
                                          obfuscated |-> <<>>,
                                          count |-> 0, files |-> <<>>])
                   ELSE registry
        k == IF i = 0 THEN Len(entered) ELSE i
    IN  [entered EXCEPT
           ![k].count = @ + 1,
           ![k].files = IF file_path \in Range(@) THEN @ ELSE Append(@, file_path)]

\* TailwindExtractor::add_class, as the registry after the call
add_class(registry, class, file_path) ==
    IF class = <<>> \/ ~is_valid_class(class) THEN registry
    ELSE IF ~trace(class, FALSE).ok THEN registry
    ELSE LET i == IndexOfClass(registry, class)
             entered == IF i = 0
                        THEN Append(registry, [key |-> class, original |-> class,
                                               obfuscated |-> <<>>,
                                               count |-> 0, files |-> <<>>])
                        ELSE registry
             k == IF i = 0 THEN Len(entered) ELSE i
         IN  [entered EXCEPT
                ![k].count = @ + 1,
                ![k].files = IF file_path \in Range(@) THEN @ ELSE Append(@, file_path)]

\* TailwindExtractor::add_classes
RECURSIVE add_classes(_, _, _)
add_classes(registry, class_list, file_path) ==
    IF class_list = <<>> THEN registry
    ELSE add_classes(add_class(registry, Head(class_list), file_path),
                     Tail(class_list), file_path)

(***************************************************************************)
(* extract() of lib.rs: inputs                                             *)
(***************************************************************************)
NumPaths == 2
Paths == 1..NumPaths

max_file_size == 10 * 1024 * 1024
allow_symlinks == FALSE

FLEX == <<"f", "l", "e", "x">>
P4 == <<"p", "-", "4">>

File(dir, symlink, meta, len, readable, parses, literals) ==
    [is_dir |-> dir, is_symlink |-> symlink, target_inside |-> TRUE, meta_ok |-> meta,
     len |-> len, readable |-> readable, parses |-> parses, literals |-> literals]

Lit(kind, line, column, value) ==
    [kind |-> kind, line |-> line, column |-> column, value |-> value]

\* three "flex" in one class attribute, and a literal with a token that is no
\* valid class ("<") and one the oracle cannot trace ("[x")
LiteralsA ==
    <<Lit("JsxAttrStr", 1, 5, FLEX \o <<SP>> \o FLEX \o <<SP, SP>> \o FLEX),
      Lit("Str", 2, 0, P4 \o <<SP, "<", SP, "[", "x">>)>>
\* three "flex" in three literals and one "p-4"
LiteralsB ==
    <<Lit("Str", 1, 0, FLEX), Lit("Str", 2, 0, FLEX),
      Lit("JsxAttrStr", 3, 3, FLEX \o <<SP>> \o P4)>>

KDir == File(TRUE, FALSE, TRUE, 0, TRUE, TRUE, <<>>)
KSymlink == File(FALSE, TRUE, TRUE, 64, TRUE, TRUE, LiteralsB)
KBig == File(FALSE, FALSE, TRUE, 11 * 1024 * 1024, TRUE, TRUE, LiteralsB)
KNoMeta == File(FALSE, FALSE, FALSE, 64, TRUE, TRUE, LiteralsB)
KEmpty == File(FALSE, FALSE, TRUE, 0, TRUE, TRUE, <<>>)
KTinyBad == File(FALSE, FALSE, TRUE, 5, TRUE, FALSE, <<>>)
KUnreadable == File(FALSE, FALSE, TRUE, 64, FALSE, TRUE, <<>>)
KMalformed == File(FALSE, FALSE, TRUE, 64, TRUE, FALSE, <<>>)
KGoodA == File(FALSE, FALSE, TRUE, 64, TRUE, TRUE, LiteralsA)
KGoodB == File(FALSE, FALSE, TRUE, 64, TRUE, TRUE, LiteralsB)

FileKinds == {KDir, KSymlink, KBig, KNoMeta, KEmpty, KTinyBad, KUnreadable, KMalformed,
              KGoodA, KGoodB}

OutCss == [abs |-> TRUE, comps |-> <<"w", "f">>]
OutManifest == [abs |-> TRUE, comps |-> <<"w", "d">>]
OutTraversal == [abs |-> FALSE, comps |-> <<"..", "f">>]

Args(input, exclude, css, manifest, dry_run, jobs) ==
    [input |-> input, exclude |-> exclude, output_css |-> css,
     output_manifest |-> manifest, dry_run |-> dry_run, jobs |-> jobs]

NoResult == [kind |-> "none", path |-> 0, total_files_processed |-> 0, total_classes |-> 0]

PipeStart ==
    /\ pc = "start" /\ globbed = FALSE /\ files = <<>> /\ skipped = {}
    /\ task = <<>> /\ taskEvents = <<>> /\ readSet = {} /\ firstErr = 0
    /\ extracted = <<>> /\ rawEvents = {} /\ fileClasses = {} /\ classes = <<>>
    /\ outWritten = {} /\ result = NoResult
    /\ vpath = None /\ vverdict = None /\ vexisting = AlwaysExisting

\* every kind of file under one include pattern, valid output paths
\* (jobs 0 stands for --jobs not given: the pool is as wide as the machine)
InitFiles ==
    /\ disk \in [Paths -> FileKinds]
    /\ \E dry \in BOOLEAN, jobs \in {0, 1} :
          args = Args(<<"all">>, <<>>, OutCss, OutManifest, dry, [some |-> jobs # 0, n |-> jobs])

\* every shape of arguments over a few kinds of file
InitArgs ==
    /\ disk \in [Paths -> {KDir, KBig, KGoodB}]
    /\ \E input \in {<<>>, <<"all">>, <<"first", "all">>, <<"none">>, <<"bad">>},
          exclude \in {<<>>, <<"first">>, <<"all">>, <<"bad">>},
          out \in {<<OutCss, OutManifest>>, <<OutTraversal, OutManifest>>,
                   <<OutCss, OutTraversal>>, <<OutCss, OutCss>>},
          jobs \in {[some |-> TRUE, n |-> 0], [some |-> TRUE, n |-> 2]} :
          args = Args(input, exclude, out[1], out[2], FALSE, jobs)

Init ==
    /\ WriteIdle /\ RewriteIdle /\ MutIdle /\ ObfIdle /\ ProgIdle /\ XformIdle /\ PipeStart
    /\ (InitFiles \/ InitArgs)

(***************************************************************************)
(* Discovery and the security gate                                         *)
(***************************************************************************)
\* ExtractArgs::validate
args_validate(a) ==
    /\ a.input # <<>>
    /\ a.output_css # a.output_manifest
    /\ ~(a.jobs.some /\ a.jobs.n = 0)

\* glob::glob / glob::Pattern::new: a malformed pattern is a PatternError
PatternValid(pattern) == pattern # "bad"
PatternMatches(pattern) ==
    IF pattern = "all" THEN Paths ELSE IF pattern = "first" THEN {1} ELSE {}

\* the paths a pattern expands to, in the (alphabetical) order glob yields them
RECURSIVE Ascending(_)
Ascending(S) ==
    IF S = {} THEN <<>>
    ELSE LET m == CHOOSE x \in S : \A y \in S : x <= y IN <<m>> \o Ascending(S \ {m})

RECURSIVE should_exclude(_, _)
should_exclude(path, exclude_patterns) ==
    IF exclude_patterns = <<>> THEN [ok |-> TRUE, val |-> FALSE]
    ELSE IF ~PatternValid(Head(exclude_patterns)) THEN [ok |-> FALSE, val |-> FALSE]
    ELSE IF path \in PatternMatches(Head(exclude_patterns)) THEN [ok |-> TRUE, val |-> TRUE]
    ELSE should_exclude(path, Tail(exclude_patterns))

\* a gate without the size ceiling
validate_input_file_NoSizeLimit(file) ==
    IF ~allow_symlinks /\ file.is_symlink THEN FALSE
    ELSE IF allow_symlinks /\ file.is_symlink /\ ~file.target_inside THEN FALSE
    ELSE IF ~file.meta_ok THEN FALSE
    ELSE TRUE

\* validate_input_file: TRUE for Ok(()), FALSE for a SecurityError
validate_input_file(file) ==
    IF ~allow_symlinks /\ file.is_symlink THEN FALSE
    ELSE IF allow_symlinks /\ file.is_symlink /\ ~file.target_inside THEN FALSE
    ELSE IF ~file.meta_ok THEN FALSE
    ELSE IF file.len > max_file_size THEN FALSE
    ELSE TRUE

\* the inner loop of collect_files_with_security over one pattern's entries
RECURSIVE CollectEntries(_, _, _, _)
CollectEntries(entries, exclude_patterns, dsk, acc) ==
    IF entries = <<>> \/ ~acc.ok THEN acc
    ELSE LET path == Head(entries)
             ex == should_exclude(path, exclude_patterns)
             next ==
                IF ~ex.ok THEN [acc EXCEPT !.ok = FALSE]
                ELSE IF ex.val THEN acc
                ELSE IF dsk[path].is_dir THEN acc
                ELSE IF ~validate_input_file(dsk[path])
                     THEN [acc EXCEPT !.skipped = @ \cup {path}]
                ELSE IF path \in acc.seen THEN acc
                ELSE [acc EXCEPT !.seen = @ \cup {path}, !.files = Append(@, path)]
         IN  CollectEntries(Tail(entries), exclude_patterns, dsk, next)

RECURSIVE CollectPatterns(_, _, _, _)
CollectPatterns(patterns, exclude_patterns, dsk, acc) ==
    IF patterns = <<>> \/ ~acc.ok THEN acc
    ELSE IF ~PatternValid(Head(patterns)) THEN [acc EXCEPT !.ok = FALSE]
    ELSE CollectPatterns(Tail(patterns), exclude_patterns, dsk,
            CollectEntries(Ascending(PatternMatches(Head(patterns))),
                           exclude_patterns, dsk, acc))

collect_files_with_security(patterns, exclude_patterns, dsk) ==
    CollectPatterns(patterns, exclude_patterns, dsk,
                    [ok |-> TRUE, files |-> <<>>, seen |-> {}, skipped |-> {}])

(***************************************************************************)
(* extract() of lib.rs: the run                                            *)
(***************************************************************************)
Fail(kind, path) ==
    [kind |-> kind, path |-> path, total_files_processed |-> 0, total_classes |-> 0]

pipeRest == <<pathVars, writeVars, rewriteVars, mutVars, obfVars, progVars, xformVars>>

\* an extract() that goes on to discovery without validating the output paths
ExtractStart_NoOutputValidation ==
    /\ pc = "start"
    /\ IF ~args_validate(args)
       THEN pc' = "done" /\ result' = Fail("InvalidInput", 0)
       ELSE pc' = "collect" /\ UNCHANGED result
    /\ UNCHANGED <<disk, args, globbed, files, skipped, task, taskEvents, readSet,
                   firstErr, extracted, rawEvents, fileClasses, classes, outWritten,
                   pipeRest>>

\* args.validate(), then validate_output_path for the CSS and the manifest
ExtractStart ==
    /\ pc = "start"
    /\ IF ~args_validate(args)
       THEN pc' = "done" /\ result' = Fail("InvalidInput", 0)
       ELSE IF validate_output_path(args.output_css, vexisting) = "SecurityError"
               \/ validate_output_path(args.output_manifest, vexisting) = "SecurityError"
       THEN pc' = "done" /\ result' = Fail("SecurityError", 0)
       ELSE pc' = "collect" /\ UNCHANGED result
    /\ UNCHANGED <<disk, args, globbed, files, skipped, task, taskEvents, readSet,
                   firstErr, extracted, rawEvents, fileClasses, classes, outWritten,
                   pipeRest>>

\* a discovery that dispatches whatever it found, an empty list included
CollectFiles_NoEmptyCheck ==
    /\ pc = "collect"
    /\ globbed' = TRUE
    /\ LET c == collect_files_with_security(args.input, args.exclude, disk) IN
       IF ~c.ok
       THEN /\ pc' = "done" /\ result' = Fail("PatternError", 0)
            /\ UNCHANGED <<files, skipped, task, taskEvents>>
       ELSE /\ pc' = "dispatch"
            /\ files' = c.files /\ skipped' = c.skipped
            /\ task' = [f \in Range(c.files) |-> "pending"]
            /\ taskEvents' = [f \in Range(c.files) |-> <<>>]
            /\ UNCHANGED result
    /\ UNCHANGED <<disk, args, readSet, firstErr, extracted, rawEvents, fileClasses,
                   classes, outWritten, pipeRest>>

\* collect_files_with_security(...)?, then NoFilesFound on an empty list
CollectFiles ==
    /\ pc = "collect"
    /\ globbed' = TRUE
    /\ LET c == collect_files_with_security(args.input, args.exclude, disk) IN
       IF ~c.ok
       THEN /\ pc' = "done" /\ result' = Fail("PatternError", 0)
            /\ UNCHANGED <<files, skipped, task, taskEvents>>
       ELSE IF c.files = <<>>
       THEN /\ pc' = "done" /\ result' = Fail("NoFilesFound", 0)
            /\ skipped' = c.skipped
            /\ UNCHANGED <<files, task, taskEvents>>
       ELSE /\ pc' = "dispatch"
            /\ files' = c.files /\ skipped' = c.skipped
            /\ task' = [f \in Range(c.files) |-> "pending"]
            /\ taskEvents' = [f \in Range(c.files) |-> <<>>]
            /\ UNCHANGED result
    /\ UNCHANGED <<disk, args, readSet, firstErr, extracted, rawEvents, fileClasses,
                   classes, outWritten, pipeRest>>

\* --jobs N bounds the pool; without it the pool is as wide as the machine
Workers == IF args.jobs.some THEN args.jobs.n ELSE Cardinality(DOMAIN task)
Running == {f \in DOMAIN task : task[f] = "running"}

\* a worker picks up a file of the parallel iterator
TaskStart(f) ==
    /\ pc = "dispatch" /\ f \in DOMAIN task /\ task[f] = "pending"
    /\ Cardinality(Running) < Workers
    /\ task' = [task EXCEPT ![f] = "running"]
    /\ UNCHANGED <<disk, args, pc, globbed, files, skipped, taskEvents, readSet, firstErr,
                   extracted, rawEvents, fileClasses, classes, outWritten, result, pipeRest>>

\* the worker's closure returns; the collect into Result keeps the first error
TaskFinish(f) ==
    /\ pc = "dispatch" /\ f \in DOMAIN task /\ task[f] = "running"
    /\ LET r == ProcessFile(disk[f], f) IN
       /\ task' = [task EXCEPT ![f] = IF r.ok THEN "ok" ELSE "err"]
       /\ taskEvents' = [taskEvents EXCEPT ![f] = r.val]
       /\ rawEvents' = rawEvents \cup Range(r.val)
       /\ firstErr' = IF ~r.ok /\ firstErr = 0 THEN f ELSE firstErr
    /\ readSet' = readSet \cup {f}
    /\ UNCHANGED <<disk, args, pc, globbed, files, skipped, extracted, fileClasses,
                   classes, outWritten, result, pipeRest>>

RECURSIVE Flatten(_, _)
Flatten(order, perFile) ==
    IF order = <<>> THEN <<>> ELSE perFile[Head(order)] \o Flatten(Tail(order), perFile)

\* the parallel collect ends: with the kept error once one occurred (files not
\* yet started are then dropped), else with every file's events in file order,
\* which are flattened, deduplicated and grouped by file
CollectResults ==
    /\ pc = "dispatch" /\ Running = {}
    /\ firstErr # 0 \/ \A f \in DOMAIN task : task[f] = "ok"
    /\ IF firstErr # 0
       THEN /\ pc' = "done" /\ result' = Fail("ParseError", firstErr)
            /\ UNCHANGED <<extracted, fileClasses>>
       ELSE /\ pc' = "merge"
            /\ extracted' = DedupEvents(Flatten(files, taskEvents))
            /\ fileClasses' = {e.file_path : e \in Range(extracted')}
            /\ UNCHANGED result
    /\ UNCHANGED <<disk, args, globbed, files, skipped, task, taskEvents, readSet,
                   firstErr, rawEvents, classes, outWritten, pipeRest>>

\* the values of one file's events, in stream order
RECURSIVE ClassesOf(_, _)
ClassesOf(events, f) ==
    IF events = <<>> THEN <<>>
    ELSE IF Head(events).file_path = f
         THEN <<Head(events).value>> \o ClassesOf(Tail(events), f)
         ELSE ClassesOf(Tail(events), f)

\* a merge in which add_class hands the oracle's error on and add_classes'
\* question mark ends the run with it
AddClasses_Propagate(f) ==
    /\ pc = "merge" /\ f \in fileClasses
    /\ LET cs == ClassesOf(extracted, f)
           failing == \E i \in 1..Len(cs) :
                         is_valid_class(cs[i]) /\ ~trace(cs[i], FALSE).ok
       IN  IF failing
           THEN /\ pc' = "done" /\ result' = Fail("TailwindError", f)
                /\ UNCHANGED <<classes, fileClasses>>
           ELSE /\ classes' = add_classes(classes, cs, f)
                /\ fileClasses' = fileClasses \ {f}
                /\ UNCHANGED <<pc, result>>
    /\ UNCHANGED <<disk, args, globbed, files, skipped, task, taskEvents, readSet,
                   firstErr, extracted, rawEvents, outWritten, pipeRest>>

\* one iteration of "for (file_path, classes) in file_classes": the HashMap
\* yields the groups in any order
AddClasses(f) ==
    /\ pc = "merge" /\ f \in fileClasses
    /\ classes' = add_classes(classes, ClassesOf(extracted, f), f)
    /\ fileClasses' = fileClasses \ {f}
    /\ UNCHANGED <<disk, args, pc, globbed, files, skipped, task, taskEvents, readSet,
                   firstErr, extracted, rawEvents, outWritten, result, pipeRest>>

\* generate_css, generate_manifest_with_stats and the ExtractionResult
Generate ==
    /\ pc = "merge" /\ fileClasses = {}
    /\ result' = [kind |-> "Ok", path |-> 0, total_files_processed |-> Len(files),
                  total_classes |-> Len(classes)]
    /\ pc' = IF args.dry_run THEN "done" ELSE "write"
    /\ UNCHANGED <<disk, args, globbed, files, skipped, task, taskEvents, readSet,
                   firstErr, extracted, rawEvents, fileClasses, classes, outWritten,
                   pipeRest>>

\* write_output_files: the CSS, then the manifest; a failing write ends the
\* run with OutputError and leaves the later file unwritten
WriteOutputFiles ==
    /\ pc = "write"
    /\ \/ outWritten' = {"css", "manifest"} /\ UNCHANGED result
       \/ outWritten' = {"css"} /\ result' = Fail("OutputError", 0)
       \/ outWritten' = {} /\ result' = Fail("OutputError", 0)
    /\ pc' = "done"
    /\ UNCHANGED <<disk, args, globbed, files, skipped, task, taskEvents, readSet,
                   firstErr, extracted, rawEvents, fileClasses, classes, pipeRest>>

Next ==
    \/ ExtractStart
    \/ CollectFiles
    \/ \E f \in Paths : TaskStart(f)
    \/ \E f \in Paths : TaskFinish(f)
    \/ CollectResults
    \/ \E f \in Paths : AddClasses(f)
    \/ Generate
    \/ WriteOutputFiles

Spec == Init /\ [][Next]_vars

(***************************************************************************)
(* What the claims speak of, read off the inputs                           *)
(***************************************************************************)
ValidIncludes == {i \in 1..Len(args.input) : PatternValid(args.input[i])}
Matched == UNION {PatternMatches(args.input[i]) : i \in ValidIncludes}
Excluded(p) ==
    \E i \in 1..Len(args.exclude) :
        PatternValid(args.exclude[i]) /\ p \in PatternMatches(args.exclude[i])
Candidates == {p \in Matched : ~Excluded(p) /\ ~disk[p].is_dir}
\* a disallowed symlink, unreadable metadata, or more than max_file_size bytes
Rejected(file) == file.is_symlink \/ ~file.meta_ok \/ file.len > max_file_size
RejectedCandidates == {p \in Candidates : Rejected(disk[p])}
PassedValidation == Candidates \ RejectedCandidates

CollectSucceeded == globbed /\ result.kind # "PatternError"

CannotReadOrParse(file) == ~file.readable \/ ~file.parses
\* read or parse is attempted and fails
FailsWhenProcessed(file) ==
    file.len # 0 /\ (~file.readable \/ (file.len >= MinParseLen /\ ~file.parses))

\* C2 as stated: once a validated file cannot be read or parsed, extract ends
\* with an error naming a file that cannot be read or parsed and no output
\* file is written.
C2_FailFastAnyUnparseable ==
    (pc = "done" /\ \E f \in Range(files) : CannotReadOrParse(disk[f])) =>
        /\ result.kind = "ParseError"
        /\ result.path \in Range(files)
        /\ CannotReadOrParse(disk[result.path])
        /\ outWritten = {}

\* C2 (amended): if a validated non-empty file cannot be read, or is at least
\* 10 bytes long and cannot be parsed, then for every completion order extract
\* ends with a ParseError naming such a file, and no output file is written.
C2_FailFast ==
    (\E f \in Range(files) : FailsWhenProcessed(disk[f])) =>
        /\ outWritten = {}
        /\ result.kind \in {"none", "ParseError"}
        /\ pc = "done" =>
              /\ result.kind = "ParseError"
              /\ result.path \in Range(files)
              /\ FailsWhenProcessed(disk[result.path])

\* a failed run in which another file was processed successfully
C2_Witness ==
    /\ pc = "done" /\ result.kind = "ParseError"
    /\ \E f \in DOMAIN task : task[f] = "ok"
    /\ task[result.path] = "err"

OutputPathFails ==
    \/ validate_output_path(args.output_css, vexisting) = "SecurityError"
    \/ validate_output_path(args.output_manifest, vexisting) = "SecurityError"

\* C4: when validate_output_path fails for the CSS or the manifest path,
\* extract returns SecurityError with no include pattern expanded, no input
\* file read or parsed and no file written.
C4_OutputRejectionFirst ==
    (args_validate(args) /\ OutputPathFails) =>
        /\ ~globbed /\ files = <<>> /\ readSet = {} /\ outWritten = {}
        /\ pc \in {"start", "done"}
        /\ pc = "done" => result.kind = "SecurityError"

\* the rejection of a run whose include pattern matches a processable file
C4_Witness ==
    /\ pc = "done" /\ result.kind = "SecurityError"
    /\ args.input = <<"all">> /\ args.exclude = <<>>
    /\ \E p \in Paths : disk[p] = KGoodB

\* C6: when the validated file set is empty (nothing matched, every match
\* excluded, or every match skipped by the gate), extract fails with
\* NoFilesFound, no parse task is dispatched and no output file is written.
C6_NoFilesFound ==
    (CollectSucceeded /\ PassedValidation = {}) =>
        /\ pc = "done" /\ result.kind = "NoFilesFound"
        /\ DOMAIN task = {} /\ readSet = {} /\ outWritten = {}

\* every match was skipped by the security gate
C6_Witness ==
    /\ pc = "done" /\ result.kind = "NoFilesFound"
    /\ skipped # {} /\ Matched = skipped

RECURSIVE CountIn(_, _)
CountIn(seq, x) ==
    IF seq = <<>> THEN 0
    ELSE (IF Head(seq) = x THEN 1 ELSE 0) + CountIn(Tail(seq), x)

\* how often c is a whitespace-delimited token of the file's literals
RECURSIVE OccurrencesIn(_, _)
OccurrencesIn(literals, c) ==
    IF literals = <<>> THEN 0
    ELSE CountIn(split_whitespace(Head(literals).value), c)
         + OccurrencesIn(Tail(literals), c)

RECURSIVE TotalOccurrences(_, _)
TotalOccurrences(order, c) ==
    IF order = <<>> THEN 0
    ELSE OccurrencesIn(disk[Head(order)].literals, c) + TotalOccurrences(Tail(order), c)

Succeeded == pc = "done" /\ result.kind = "Ok"

\* C7 as stated: after a successful run every class of the registry has as its
\* count the number of times it occurs as a token across the processed files,
\* and its files list holds every file containing it exactly once.
C7_CountIsOccurrences ==
    Succeeded =>
        \A i \in 1..Len(classes) :
            LET c == classes[i].original IN
            /\ classes[i].count = TotalOccurrences(files, c)
            /\ Range(classes[i].files)
                 = {f \in Range(files) : OccurrencesIn(disk[f].literals, c) > 0}
            /\ Len(classes[i].files) = Cardinality(Range(classes[i].files))

\* what the code counts: the literals of the processed files that contain the class
LiteralsWith(c) ==
    {<<f, j>> \in Range(files) \X (1..3) :
        /\ j <= Len(disk[f].literals)
        /\ c \in Range(split_whitespace(disk[f].literals[j].value))}

CountIsLiteralsContaining ==
    Succeeded =>
        \A i \in 1..Len(classes) :
            classes[i].count = Cardinality(LiteralsWith(classes[i].original))

NoDuplicates(seq) == \A i, j \in 1..Len(seq) : seq[i] = seq[j] => i = j

\* C8: the token stream handed to aggregation holds no two events with the
\* same (value, file, line, column) and holds one event for every such tuple
\* that any file's traversal produced, also when the visitor reached a
\* literal along two overlapping paths.
C8_RawEventDedup ==
    (pc \in {"merge", "write"} \/ (pc = "done" /\ result.kind \in {"Ok", "OutputError"})) =>
        /\ NoDuplicates(extracted)
        /\ Range(extracted) = rawEvents
        /\ rawEvents = UNION {Range(taskEvents[f]) : f \in Range(files)}

\* the stream is handed over after a traversal that produced an event twice
C8_Witness ==
    /\ pc = "merge"
    /\ \E f \in Range(files) :
          /\ disk[f] = KGoodB
          /\ Len(taskEvents[f]) > Cardinality(Range(taskEvents[f]))
    /\ Len(extracted) > 0

\* the registry of a sequential run that completes and merges the validated
\* files in list order
RECURSIVE MergeInOrder(_, _, _)
MergeInOrder(order, events, registry) ==
    IF order = <<>> THEN registry
    ELSE MergeInOrder(Tail(order), events,
                      add_classes(registry, ClassesOf(events, Head(order)), Head(order)))

SequentialRegistry ==
    MergeInOrder(files,
                 DedupEvents(Flatten(files, [f \in Range(files) |-> ProcessFile(disk[f], f).val])),
                 <<>>)

\* a registry without the order of its records and of their files
Unordered(registry) ==
    {[original |-> registry[i].original, count |-> registry[i].count,
      files |-> Range(registry[i].files)] : i \in 1..Len(registry)}

\* C9: for the same validated files, every worker count, every completion
\* order of the file tasks and every order of merging the per-file groups
\* gives the same classes, the same count per class and the same files
\* membership per class as the sequential run in list order.
C9_MergeOrderIndependent ==
    ((pc = "merge" /\ fileClasses = {}) \/ pc = "write"
        \/ (pc = "done" /\ result.kind \in {"Ok", "OutputError"})) =>
        Unordered(classes) = Unordered(SequentialRegistry)

\* two files sharing a class were merged against the list order
C9_Witness ==
    /\ Succeeded /\ Len(files) >= 2
    /\ \E i \in 1..Len(classes) :
          /\ Len(classes[i].files) >= 2
          /\ classes[i].files[1] > classes[i].files[2]

(***************************************************************************)
(* Tokens of the rewriter's answer                                         *)
(***************************************************************************)
\* the output has the input's number of tokens and token i of the output is
\* token i of the input, rewritten by the oracle or verbatim
SameTokensInOrder(s, out, obfuscate) ==
    LET tin == split_whitespace(s)
        tout == split_whitespace(out)
    IN  /\ Len(tout) = Len(tin)
        /\ \A i \in 1..Len(tin) : tout[i] \in {tin[i], classify(tin[i], obfuscate)}

RewrittenTokenwise(s, out, obfuscate) ==
    LET tin == split_whitespace(s)
        tout == split_whitespace(out)
    IN  /\ Len(tout) = Len(tin)
        /\ \A i \in 1..Len(tin) :
              tout[i] = IF trace(tin[i], obfuscate).ok
                        THEN trace(tin[i], obfuscate).val ELSE tin[i]

\* C12: when the oracle fails on the whole trimmed string, the rewriter still
\* rewrites every token the oracle can classify (all-but-the-first, then
\* all-but-the-last, then token by token) and leaves verbatim only the
\* tokens it cannot classify.
C12_TieredFallback ==
    (rpc = "done" /\ trim(rin) # <<>> /\ ~trace(trim(rin), robf).ok) =>
        RewrittenTokenwise(rin, rout, robf)
\* the tokens of a processed file that pass is_valid_class
ValidTokensOf(f) ==
    {t \in UNION {Range(split_whitespace(disk[f].literals[j].value)) :
                     j \in 1..Len(disk[f].literals)} : is_valid_class(t)}

ContainsStr(s, sub) ==
    \E i \in 1..(Len(s) - Len(sub) + 1) : SubSeq(s, i, i + Len(sub) - 1) = sub

ClassContexts ==
    {"JsxClassAttribute", "ClassNameProperty", "WhitelistedFunction", "TrackedVariable"}

\* a check that looks at the innermost context only
is_in_class_context_TopOnly(stack) == stack[Len(stack)] \in ClassContexts

\* ContextStack::is_in_class_context: any context of the stack
is_in_class_context(stack) == \E i \in 1..Len(stack) : stack[i] \in ClassContexts

has_tailwind_patterns(value) == \E c \in {"-", ":", "[", "]"} : Contains(value, c)

\* no character check at all
valid_chars_Any(value) == TRUE

valid_chars(value) ==
    \A i \in 1..Len(value) :
        \/ value[i] \in Alphanumerics
        \/ value[i] \in {"-", "_", ":", "[", "]", "(", ")", "/", "#", "%", "."}
        \/ is_whitespace(value[i])

PathPrefixes ==
    {<<"h", "t", "t", "p", ":", "/", "/">>, <<"h", "t", "t", "p", "s", ":", "/", "/">>,
     <<"/">>, <<".", "/">>, <<".", ".", "/">>}
UtilityPrefixes ==
    {<<"b", "g", "-">>, <<"t", "e", "x", "t", "-">>, <<"p", "-">>, <<"m", "-">>,
     <<"f", "l", "e", "x">>, <<"g", "r", "i", "d">>, <<"h", "o", "v", "e", "r", ":">>,
     <<"f", "o", "c", "u", "s", ":">>, <<"m", "d", ":">>, <<"l", "g", ":">>}

\* a token test that knows the listed prefixes only
token_looks_tailwind_PrefixOnly(token) == \E p \in UtilityPrefixes : IsPrefix(p, token)

\* the closure of tokens.iter().any(..) in the has_tailwind_patterns branch
token_looks_tailwind(token) ==
    \/ Contains(token, "-") \/ Contains(token, ":")
    \/ \E p \in UtilityPrefixes : IsPrefix(p, token)

\* a classifier whose class-context arm asks for a space
looks_like_classes_ClassNeedsSpace(value, stack) ==
    LET tokens == split_whitespace(value) IN
    IF Len(value) < 2 THEN FALSE
    ELSE IF (\E p \in PathPrefixes : IsPrefix(p, value)) \/ Contains(value, "\\") THEN FALSE
    ELSE IF \/ (/\ Contains(value, ".") /\ ~ContainsStr(value, <<"0", ".">>)
                /\ ~ContainsStr(value, <<"1", ".">>))
            \/ Contains(value, "!") \/ Contains(value, "?") \/ Contains(value, ",")
         THEN FALSE
    ELSE IF is_in_class_context(stack)
         THEN valid_chars(value) /\ Contains(value, SP)
    ELSE IF ~valid_chars(value) THEN FALSE
    ELSE IF has_tailwind_patterns(value)
         THEN \E i \in 1..Len(tokens) : token_looks_tailwind(tokens[i])
    ELSE IF Contains(value, SP)
         THEN /\ Len(tokens) >= 2
              /\ \E i \in 1..Len(tokens) : Contains(tokens[i], "-") \/ Len(tokens[i]) > 3
    ELSE FALSE

\* TailwindAstMutator::looks_like_classes, with the context stack it reads
looks_like_classes(value, stack) ==
    LET tokens == split_whitespace(value) IN
    IF Len(value) < 2 THEN FALSE
    ELSE IF (\E p \in PathPrefixes : IsPrefix(p, value)) \/ Contains(value, "\\") THEN FALSE
    ELSE IF \/ (/\ Contains(value, ".") /\ ~ContainsStr(value, <<"0", ".">>)
                /\ ~ContainsStr(value, <<"1", ".">>))
            \/ Contains(value, "!") \/ Contains(value, "?") \/ Contains(value, ",")
         THEN FALSE
    ELSE IF is_in_class_context(stack)
         THEN valid_chars(value) /\ (has_tailwind_patterns(value) \/ Contains(value, SP))
    ELSE IF ~valid_chars(value) THEN FALSE
    ELSE IF has_tailwind_patterns(value)
         THEN \E i \in 1..Len(tokens) : token_looks_tailwind(tokens[i])
    ELSE IF Contains(value, SP)
         THEN /\ Len(tokens) >= 2
              /\ \E i \in 1..Len(tokens) : Contains(tokens[i], "-") \/ Len(tokens[i]) > 3
    ELSE FALSE

\* ---- specification of the classifier: short strings over a few characters
\* ---- and the strings of the tests, under stacks that push calls build
MaxValueLen == 3
ClassifierAlphabet == {"a", "-", SP, TAB, ".", "0", "!", "[", "@"}
ClassifierCatalogue ==
    {<<"h", "t", "t", "p", ":", "/", "/", "a", "-", "b">>,
     <<"h", "t", "t", "p", "s", ":", "/", "/", "a", "-", "b">>, <<"/", "a", "-", "b">>,
     <<".", "/", "a", "-", "b">>, <<".", ".", "/", "a", "-", "b">>,
     <<"a", "\\", "b", "-", "c">>, <<"a", "-", "b", "?">>, <<"a", "-", "b", ",", "c">>,
     <<"a", ":", "b">>, <<"a", "]">>, <<"f", "l", "e", "x">>, <<"g", "r", "i", "d">>,
     <<"g", "r", "i", "d", "a", SP, "[", "a", "]">>,
     <<"[", "a", "]", SP, "a", "b", "c", "d">>, <<"a", "b", SP, "a", "b", "c", "d">>,
     <<"a", "b", SP, "a", "b">>, <<"a", "b", TAB, "a", "b", "c", "d">>,
     <<"a", "b", "c", "d">>, <<"a", "1", ".", "5", "-", "b">>,
     <<"a", ".", "b", "-", "c">>, <<"b", "g", "-", "a">>, <<"m", "d", ":", "a">>,
     <<"h", "o", "v", "e", "r", ":", "a", SP, "b">>, <<"a", "_", "b", "-", "c">>,
     <<"(", "a", ")", "-", "b">>, <<"a", "/", "b", "-", "c">>, <<"#", "a", "-", "b">>,
     <<"%", "a", SP, "b">>,
     <<"m", "y", "-", "c", "u", "s", "t", "o", "m", "-", "c", "l", "a", "s", "s">>,
     <<"m", "y", "c", "u", "s", "t", "o", "m", "c", "l", "a", "s", "s">>,
     <<"s", "i", "m", "p", "l", "e", SP, "w", "o", "r", "d", "s", SP, "h", "e", "r", "e">>,
     <<"p", "-", "4", SP, "b", "g", "-", "b", "l", "u", "e", "-", "5", "0", "0">>,
     <<"f", "l", "e", "x", SP, "i", "t", "e", "m", "s", "-", "c", "e", "n", "t", "e", "r">>,
     <<"b", "g", "-", "[", "#", "1", "2", "3", "4", "5", "6", "]">>,
     <<"h", "e", "l", "l", "o", ",", SP, "w", "o", "r", "l", "d", "!">>}
ClassifierValues == StringsUpTo(ClassifierAlphabet, MaxValueLen) \cup ClassifierCatalogue
ClassifierStacks ==
    {<<"General">>, <<"General", "General">>,
     <<"General", "JsxClassAttribute">>, <<"General", "ClassNameProperty">>,
     <<"General", "WhitelistedFunction">>, <<"General", "TrackedVariable">>,
     <<"General", "ConditionalExpression">>, <<"General", "TemplateLiteral">>,
     <<"General", "JsxClassAttribute", "ConditionalExpression">>,
     <<"General", "WhitelistedFunction", "ConditionalExpression", "TemplateLiteral">>}

InitClassify ==
    /\ PipeIdle /\ PathIdle /\ WriteIdle /\ RewriteIdle /\ ObfIdle /\ ProgIdle /\ XformIdle
    /\ context_stack \in ClassifierStacks
    /\ lvalue \in ClassifierValues
    /\ lverdict = FALSE /\ mpc = "classify"
    /\ class_variables = {} /\ mut_obfuscate = FALSE /\ module = <<>> /\ todo = <<>>
    /\ strs = <<>> /\ calls = <<>> /\ transformed_count = 0 /\ ret = <<>>

LooksLikeClasses ==
    /\ mpc = "classify"
    /\ lverdict' = looks_like_classes(lvalue, context_stack)
    /\ mpc' = "classified"
    /\ UNCHANGED <<context_stack, lvalue, walkVars,
                   pipeVars, pathVars, writeVars, rewriteVars, obfVars, progVars, xformVars>>

SpecClassify == InitClassify /\ [][LooksLikeClasses]_vars

\* the rejection rules: too short, a URL or path, a backslash, sentence punctuation
PassesRejectionRules(v) ==
    /\ Len(v) >= 2
    /\ ~\E p \in PathPrefixes : IsPrefix(p, v)
    /\ ~Contains(v, "\\")
    /\ ~\E c \in {"!", "?", ","} : Contains(v, c)
    /\ Contains(v, ".") => (ContainsStr(v, <<"0", ".">>) \/ ContainsStr(v, <<"1", ".">>))

\* the character rule
PassesCharacterRule(v) ==
    \A i \in 1..Len(v) :
        \/ v[i] \in Alphanumerics \/ is_whitespace(v[i])
        \/ v[i] \in {"-", "_", ":", "[", "]", "(", ")", "/", "#", "%", "."}

\* C14: in every context, looks_like_classes(v) is true only if v has length
\* at least 2, starts with none of http://, https://, /, ./, ../, holds no
\* backslash and none of ! ? , and every character of v is alphanumeric,
\* whitespace or one of - _ : [ ] ( ) / # % .
C14_NecessaryConditions ==
    (mpc = "classified" /\ lverdict) =>
        /\ Len(lvalue) >= 2
        /\ ~\E p \in PathPrefixes : IsPrefix(p, lvalue)
        /\ ~Contains(lvalue, "\\")
        /\ ~\E c \in {"!", "?", ","} : Contains(lvalue, c)
        /\ PassesCharacterRule(lvalue)

\* a value accepted inside a class-bearing context
C14_Witness ==
    /\ mpc = "classified" /\ lverdict
    /\ is_in_class_context(context_stack)
    /\ Contains(lvalue, "[")

\* C15: inside a class-bearing context (one anywhere on the stack) a value
\* that passes the rejection and character rules is accepted if and only if
\* it holds a class-pattern marker (- : [ ]) or a space.
C15_InsideClassContext ==
    (/\ mpc = "classified"
     /\ \E i \in 1..Len(context_stack) : context_stack[i] \in ClassContexts
     /\ PassesRejectionRules(lvalue) /\ PassesCharacterRule(lvalue)) =>
        (lverdict <=> (\E c \in {"-", ":", "[", "]", SP} : Contains(lvalue, c)))

\* two bare words accepted under a class context that is not the innermost
C15_Witness ==
    /\ mpc = "classified" /\ lverdict
    /\ context_stack[Len(context_stack)] \notin ClassContexts
    /\ \E i \in 1..Len(context_stack) : context_stack[i] \in ClassContexts
    /\ ~has_tailwind_patterns(lvalue)

\* C16 as stated: outside class-bearing contexts a value that passes the
\* rules is accepted if and only if (a) it has a marker and a token that
\* starts with one of the listed utility prefixes, or (b) it has at least two
\* tokens and a token that holds '-' or is longer than 3 characters.
C16_OutsideListedPrefixes ==
    (/\ mpc = "classified"
     /\ ~\E i \in 1..Len(context_stack) : context_stack[i] \in ClassContexts
     /\ PassesRejectionRules(lvalue) /\ PassesCharacterRule(lvalue)) =>
        LET toks == split_whitespace(lvalue)
            marker == \E c \in {"-", ":", "[", "]"} : Contains(lvalue, c)
        IN  lverdict <=>
              \/ marker /\ \E i \in 1..Len(toks) :
                              \E p \in UtilityPrefixes : IsPrefix(p, toks[i])
              \/ Len(toks) >= 2 /\ \E i \in 1..Len(toks) :
                                      Contains(toks[i], "-") \/ Len(toks[i]) > 3

\* C16 (amended): outside class-bearing contexts a value that passes the
\* rules is accepted if and only if (a) it has a marker and a token that
\* holds '-' or ':' or starts with flex or grid, or (b) it has no marker,
\* holds a space, has at least two tokens and a token longer than 3
\* characters.
C16_OutsideClassContext ==
    (/\ mpc = "classified"
     /\ ~\E i \in 1..Len(context_stack) : context_stack[i] \in ClassContexts
     /\ PassesRejectionRules(lvalue) /\ PassesCharacterRule(lvalue)) =>
        LET toks == split_whitespace(lvalue)
            marker == \E c \in {"-", ":", "[", "]"} : Contains(lvalue, c)
        IN  lverdict <=>
              \/ marker /\ \E i \in 1..Len(toks) :
                    \/ Contains(toks[i], "-") \/ Contains(toks[i], ":")
                    \/ IsPrefix(<<"f", "l", "e", "x">>, toks[i])
                    \/ IsPrefix(<<"g", "r", "i", "d">>, toks[i])
              \/ /\ ~marker /\ Contains(lvalue, SP) /\ Len(toks) >= 2
                 /\ \E i \in 1..Len(toks) : Len(toks[i]) > 3

\* a dashed custom class accepted outside every class context
C16_Witness ==
    /\ mpc = "classified" /\ lverdict
    /\ context_stack = <<"General">>
    /\ Contains(lvalue, "-")
    /\ ~\E p \in UtilityPrefixes : \E i \in 1..Len(split_whitespace(lvalue)) :
          IsPrefix(p, split_whitespace(lvalue)[i])

\* C30: a value the classifier accepts with only General on the stack is
\* also accepted with any class-bearing context on the stack.
C30_ContextMonotone ==
    (/\ mpc = "classified" /\ is_in_class_context(context_stack)
     /\ looks_like_classes(lvalue, <<"General">>)) => lverdict

\* a single token with a utility marker, accepted under both rules, asked
\* under a class-bearing stack
C30_Witness ==
    /\ mpc = "classified" /\ lverdict
    /\ is_in_class_context(context_stack)
    /\ looks_like_classes(lvalue, <<"General">>)
    /\ ~Contains(lvalue, SP)

(***************************************************************************)
(* The traversal of TailwindAstMutator, ast_mutator.rs                     *)
(*                                                                         *)
(* A node is [kind, name, ids, kids]: ids are the string literals the node *)
(* holds itself (the value of a Str, the quasis of a Tpl), kids the nodes  *)
(* that visit_mut_children_with dispatches to.  A handler that recurses    *)
(* leaves an "exit" frame under the frames of its children; Return runs    *)
(* the code that follows the recursion.                                    *)
(***************************************************************************)
AstContexts ==
    {"JsxClassAttribute", "ClassNameProperty", "WhitelistedFunction", "TrackedVariable",
     "ConditionalExpression", "TemplateLiteral", "General"}

ContextStack_new == <<"General">>

push(stack, context) == Append(stack, context)

\* a pop without the length test
pop_Unguarded(stack) == SubSeq(stack, 1, Len(stack) - 1)

pop(stack) == IF Len(stack) > 1 THEN SubSeq(stack, 1, Len(stack) - 1) ELSE stack

whitelisted_functions ==
    {"clsx", "cn", "twMerge", "classNames", "tw", "classnames", "twJoin"}

MutState == [strs |-> strs, calls |-> calls, count |-> transformed_count]

Commit(st) == strs' = st.strs /\ calls' = st.calls /\ transformed_count' = st.count

\* process_with_fallback on literal i; update and count only if it changed
rewrite_literal(st, i, site) ==
    LET original == st.strs[i]
        transformed == process_with_fallback(original, mut_obfuscate)
    IN  [strs |-> [st.strs EXCEPT ![i] = transformed],
         calls |-> Append(st.calls, [id |-> i, site |-> site,
                                     input |-> original, output |-> transformed]),
         count |-> st.count + (IF transformed # original THEN 1 ELSE 0)]

\* the body of visit_mut_str, and of the quasi loop of visit_mut_tpl
RECURSIVE classify_and_rewrite(_, _, _, _)
classify_and_rewrite(st, ids, stack, site) ==
    IF ids = <<>> THEN st
    ELSE classify_and_rewrite(
            IF looks_like_classes(st.strs[Head(ids)], stack)
            THEN rewrite_literal(st, Head(ids), site) ELSE st,
            Tail(ids), stack, site)

Visiting(kinds) ==
    /\ mpc = "visit" /\ todo # <<>>
    /\ todo[1].op = "visit" /\ todo[1].node.kind \in kinds

\* replace the frame on top by frames, leave stack as the context stack
Step(frames, stack, returned) ==
    LET t == frames \o Tail(todo) IN
    /\ todo' = t
    /\ mpc' = IF t = <<>> THEN "visited" ELSE "visit"
    /\ context_stack' = stack
    /\ ret' = returned

\* a handler that returns without recursing
Leaf(stack) ==
    Step(<<>>, stack,
         <<[handler |-> todo[1].node.kind, entry |-> context_stack, exit |-> stack]>>)

\* visit the children under stack; pops says whether the handler pops afterwards
Descend(stack, pops) ==
    LET node == todo[1].node IN
    Step([i \in 1..Len(node.kids) |->
             [op |-> "visit", node |-> node.kids[i], entry |-> <<>>, pops |-> FALSE]]
         \o <<[op |-> "exit", node |-> node, entry |-> context_stack, pops |-> pops]>>,
         stack, ret)

walkRest ==
    <<mut_obfuscate, module, lvalue, lverdict, pipeVars, pathVars, writeVars, rewriteVars,
      obfVars, progVars, xformVars>>

visit_mut_str ==
    /\ Visiting({"Str"})
    /\ Commit(classify_and_rewrite(MutState, todo[1].node.ids, context_stack,
                                   "visit_mut_str"))
    /\ Leaf(context_stack)
    /\ UNCHANGED <<class_variables, walkRest>>

visit_mut_tpl ==
    /\ Visiting({"Tpl"})
    /\ Commit(classify_and_rewrite(MutState, todo[1].node.ids, context_stack,
                                   "visit_mut_tpl"))
    /\ Descend(context_stack, FALSE)
    /\ UNCHANGED <<class_variables, walkRest>>

\* a handler that asks the classifier about the direct literal too
visit_mut_jsx_attr_Classified ==
    /\ Visiting({"JSXAttr"})
    /\ LET node == todo[1].node
           is_class_attr == node.name \in {"className", "class"}
           inner == push(context_stack, "JsxClassAttribute")
       IN  IF is_class_attr /\ node.kids # <<>> /\ node.kids[1].kind = "Str"
           THEN /\ Commit(classify_and_rewrite(MutState, node.kids[1].ids, inner,
                                               "visit_mut_jsx_attr"))
                /\ Leaf(pop(inner))
           ELSE IF is_class_attr
           THEN Descend(inner, TRUE) /\ UNCHANGED <<strs, calls, transformed_count>>
           ELSE Descend(context_stack, FALSE)
                /\ UNCHANGED <<strs, calls, transformed_count>>
    /\ UNCHANGED <<class_variables, walkRest>>

visit_mut_jsx_attr ==
    /\ Visiting({"JSXAttr"})
    /\ LET node == todo[1].node
           is_class_attr == node.name \in {"className", "class"}
           inner == push(context_stack, "JsxClassAttribute")
       IN  IF is_class_attr /\ node.kids # <<>> /\ node.kids[1].kind = "Str"
           THEN /\ Commit(rewrite_literal(MutState, node.kids[1].ids[1],
                                          "visit_mut_jsx_attr"))
                /\ Leaf(pop(inner))
           ELSE IF is_class_attr
           THEN Descend(inner, TRUE) /\ UNCHANGED <<strs, calls, transformed_count>>
           ELSE Descend(context_stack, FALSE)
                /\ UNCHANGED <<strs, calls, transformed_count>>
    /\ UNCHANGED <<class_variables, walkRest>>

visit_mut_prop ==
    /\ Visiting({"KeyValueProp"})
    /\ LET node == todo[1].node
           is_class_key == node.name \in {"className", "class"}
       IN  IF is_class_key
           THEN /\ Commit(IF node.kids[1].kind = "Str"
                          THEN rewrite_literal(MutState, node.kids[1].ids[1],
                                               "visit_mut_prop")
                          ELSE MutState)
                /\ Descend(push(context_stack, "ClassNameProperty"), TRUE)
           ELSE Descend(context_stack, FALSE)
                /\ UNCHANGED <<strs, calls, transformed_count>>
    /\ UNCHANGED <<class_variables, walkRest>>

visit_mut_call_expr ==
    /\ Visiting({"CallExpr"})
    /\ IF todo[1].node.name \in whitelisted_functions
       THEN Descend(push(context_stack, "WhitelistedFunction"), TRUE)
       ELSE Descend(context_stack, FALSE)
    /\ UNCHANGED <<class_variables, strs, calls, transformed_count, walkRest>>

\* the marking that follows the visit of the initializer is done by Return
visit_mut_var_declarator ==
    /\ Visiting({"VarDeclarator"})
    /\ Descend(context_stack, FALSE)
    /\ UNCHANGED <<class_variables, strs, calls, transformed_count, walkRest>>

visit_mut_ident ==
    /\ Visiting({"Ident"})
    /\ Leaf(context_stack)
    /\ UNCHANGED <<class_variables, strs, calls, transformed_count, walkRest>>

\* a ternary handler that never pushes
visit_mut_cond_expr_NoPush ==
    /\ Visiting({"CondExpr"})
    /\ Descend(context_stack, FALSE)
    /\ UNCHANGED <<class_variables, strs, calls, transformed_count, walkRest>>

visit_mut_cond_expr ==
    /\ Visiting({"CondExpr"})
    /\ IF is_in_class_context(context_stack)
       THEN Descend(push(context_stack, "ConditionalExpression"), TRUE)
       ELSE Descend(context_stack, FALSE)
    /\ UNCHANGED <<class_variables, strs, calls, transformed_count, walkRest>>

visit_mut_bin_expr ==
    /\ Visiting({"BinExpr"})
    /\ IF todo[1].node.name \in {"&&", "||"} /\ is_in_class_context(context_stack)
       THEN Descend(push(context_stack, "ConditionalExpression"), TRUE)
       ELSE Descend(context_stack, FALSE)
    /\ UNCHANGED <<class_variables, strs, calls, transformed_count, walkRest>>

\* the generated handlers of the nodes the mutator does not override
visit_mut_children_with ==
    /\ Visiting({"Other", "JSXExprContainer"})
    /\ Descend(context_stack, FALSE)
    /\ UNCHANGED <<class_variables, strs, calls, transformed_count, walkRest>>

\* the code of a handler after its children were visited
Return ==
    /\ mpc = "visit" /\ todo # <<>> /\ todo[1].op = "exit"
    /\ LET f == todo[1]
           out == IF f.pops THEN pop(context_stack) ELSE context_stack
       IN  /\ Step(<<>>, out,
                   <<[handler |-> f.node.kind, entry |-> f.entry, exit |-> out]>>)
           /\ class_variables' =
                 IF /\ f.node.kind = "VarDeclarator" /\ f.node.kids # <<>>
                    /\ is_in_class_context(f.entry) /\ f.node.name # ""
                 THEN class_variables \cup {f.node.name}
                 ELSE class_variables
    /\ UNCHANGED <<strs, calls, transformed_count, walkRest>>

\* ---- direct calls on a fresh ContextStack
MaxStackDepth == 3

Push(context) ==
    /\ mpc = "api" /\ Len(context_stack) < MaxStackDepth
    /\ context_stack' = push(context_stack, context)
    /\ UNCHANGED <<lvalue, lverdict, mpc, walkVars, pipeVars, pathVars, writeVars,
                   rewriteVars, obfVars, progVars, xformVars>>

Pop ==
    /\ mpc = "api"
    /\ context_stack' = pop(context_stack)
    /\ UNCHANGED <<lvalue, lverdict, mpc, walkVars, pipeVars, pathVars, writeVars,
                   rewriteVars, obfVars, progVars, xformVars>>

\* ---- the modules visited: a few trees, their literals drawn from LitValues
LitValues ==
    {<<"p">>, <<"p", "-", "a">>, <<"p", SP, "b">>, <<"a", "b">>, <<"[", SP, "p">>}

Modules ==
    LET N(kind, name, ids, kids) ==
            [kind |-> kind, name |-> name, ids |-> ids, kids |-> kids]
        Str(i) == N("Str", "", <<i>>, <<>>)
        Ident(x) == N("Ident", x, <<>>, <<>>)
        Attr(name, kids) == N("JSXAttr", name, <<>>, kids)
        Expr(e) == N("JSXExprContainer", "", <<>>, <<e>>)
        Prop(key, value) == N("KeyValueProp", key, <<>>, <<value>>)
        Call(callee, arguments) == N("CallExpr", callee, <<>>, arguments)
        Cond(test, cons, alt) == N("CondExpr", "", <<>>, <<test, cons, alt>>)
        Bin(op, left, right) == N("BinExpr", op, <<>>, <<left, right>>)
        Var(x, init) == N("VarDeclarator", x, <<>>, <<init>>)
        Other(kids) == N("Other", "", <<>>, kids)
        Shapes ==
            {[n |-> 2, root |-> Other(<<Attr("className", <<Str(1)>>),
                                         Attr("id", <<Str(2)>>)>>)],
             [n |-> 1, root |-> Other(<<Attr("className", <<>>),
                                         Attr("class", <<Str(1)>>)>>)],
             [n |-> 3, root |-> Attr("class", <<Expr(Cond(Str(1), Str(2), Str(3)))>>)],
             [n |-> 2, root |-> Attr("className",
                                     <<Expr(Call("clsx", <<Str(1),
                                             Bin("&&", Ident("x"), Str(2))>>))>>)],
             [n |-> 2, root |-> Other(<<Prop("className", Str(1)),
                                         Prop("title", Str(2))>>)],
             [n |-> 2, root |-> Prop("class", Bin("+", Str(1), Str(2)))],
             [n |-> 3, root |-> Call("fetch", <<Str(1), Cond(Ident("x"), Str(2),
                                                              Str(3))>>)],
             [n |-> 1, root |-> Var("v", Call("cn", <<Str(1)>>))],
             [n |-> 1, root |-> Call("twMerge", <<Other(<<Var("v", Str(1))>>)>>)],
             [n |-> 3, root |-> Attr("className",
                                     <<Expr(N("Tpl", "", <<1, 2>>, <<Str(3)>>))>>)],
             [n |-> 2, root |-> N("Tpl", "", <<1>>, <<Bin("||", Ident("x"), Str(2))>>)],
             [n |-> 2, root |-> Attr("className",
                                     <<Expr(Cond(Ident("x"),
                                                 Bin("||", Ident("y"), Str(1)),
                                                 Str(2)))>>)]}
    IN  UNION {{[root |-> sh.root, lits |-> l] : l \in [1..sh.n -> LitValues]} :
               sh \in Shapes}

InitVisit ==
    /\ PipeIdle /\ PathIdle /\ WriteIdle /\ RewriteIdle /\ ObfIdle /\ ProgIdle /\ XformIdle
    /\ context_stack = ContextStack_new
    /\ lvalue = <<>> /\ lverdict = FALSE
    /\ class_variables = {} /\ mut_obfuscate \in BOOLEAN
    /\ calls = <<>> /\ transformed_count = 0 /\ ret = <<>>
    /\ \/ mpc = "api" /\ module = <<>> /\ strs = <<>> /\ todo = <<>>
       \/ /\ mpc = "visit" /\ module \in Modules /\ strs = module.lits
          /\ todo = <<[op |-> "visit", node |-> module.root, entry |-> <<>>,
                       pops |-> FALSE]>>

NextVisit ==
    \/ visit_mut_str \/ visit_mut_tpl \/ visit_mut_jsx_attr \/ visit_mut_prop
    \/ visit_mut_call_expr \/ visit_mut_var_declarator \/ visit_mut_ident
    \/ visit_mut_cond_expr \/ visit_mut_bin_expr \/ visit_mut_children_with
    \/ Return
    \/ \E context \in AstContexts : Push(context)
    \/ Pop

SpecVisit == InitVisit /\ [][NextVisit]_vars

RECURSIVE NodesOf(_)
NodesOf(node) == {node} \cup UNION {NodesOf(node.kids[i]) : i \in 1..Len(node.kids)}

\* the direct string literals of the attributes named className or class
DirectClassLiterals ==
    {n.kids[1].ids[1] : n \in {x \in NodesOf(module.root) :
        /\ x.kind = "JSXAttr" /\ x.name \in {"className", "class"}
        /\ x.kids # <<>> /\ x.kids[1].kind = "Str"}}

\* C17: a direct string literal value of a JSX attribute named className or
\* class is passed to the rewriter exactly once, whatever the classifier
\* answers for it; the literal is overwritten, and transformed_count grows by
\* one, if and only if the rewritten string differs from the original.
C17_ClassAttributeLiteralOnce ==
    mpc \in {"visit", "visited"} =>
        /\ \A i \in DirectClassLiterals :
              LET cs == {k \in 1..Len(calls) : calls[k].id = i} IN
              /\ Cardinality(cs) <= 1
              /\ mpc = "visited" => Cardinality(cs) = 1
              /\ cs = {} => strs[i] = module.lits[i]
              /\ \A k \in cs :
                    /\ calls[k].input = module.lits[i]
                    /\ calls[k].output = process_with_fallback(module.lits[i], mut_obfuscate)
                    /\ strs[i] = calls[k].output
        /\ transformed_count =
              Cardinality({k \in 1..Len(calls) : calls[k].output # calls[k].input})

\* a literal the classifier refuses, rewritten and counted all the same
C17_Witness ==
    /\ mpc = "visited"
    /\ \E i \in DirectClassLiterals :
          /\ ~looks_like_classes(module.lits[i], <<"General", "JsxClassAttribute">>)
          /\ strs[i] # module.lits[i]
    /\ transformed_count = 1

\* C18: during a traversal, and after any sequence of push and pop calls
\* (pop on the base included), the context stack is non-empty with General at
\* index 0; every handler returns with the stack it was entered with; after
\* the visit of a tree the stack is exactly [General].
C18_StackDiscipline ==
    mpc \in {"api", "visit", "visited"} =>
        /\ Len(context_stack) >= 1
        /\ context_stack[1] = "General"
        /\ \A k \in 1..Len(ret) : ret[k].exit = ret[k].entry
        /\ mpc = "visited" => context_stack = <<"General">>

\* two contexts pushed, and a handler has returned below them
C18_Witness ==
    /\ mpc = "visit"
    /\ Len(context_stack) = 3
    /\ ret # <<>> /\ ret[1].handler = "Str"

\* the nodes that push a class-bearing context for their children
ClassBearing(node) ==
    \/ node.kind \in {"JSXAttr", "KeyValueProp"} /\ node.name \in {"className", "class"}
    \/ node.kind = "CallExpr" /\ node.name \in whitelisted_functions

Conditional(node) ==
    \/ node.kind = "CondExpr"
    \/ node.kind = "BinExpr" /\ node.name \in {"&&", "||"}

\* C23: after the visit of a module, a declarator with an initializer has its
\* name in the alias table if and only if it lies inside a class-bearing
\* context or its initializer is itself a whitelisted helper call or other
\* class-bearing expression.
C23_DeclaratorMarking ==
    mpc = "visited" =>
        LET RECURSIVE Expected(_, _)
            Expected(node, inside) ==
                (IF /\ node.kind = "VarDeclarator" /\ node.kids # <<>>
                    /\ (inside \/ ClassBearing(node.kids[1]))
                 THEN {node.name} ELSE {})
                \cup UNION {Expected(node.kids[k], inside \/ ClassBearing(node)) :
                               k \in 1..Len(node.kids)}
        IN  class_variables = Expected(module.root, FALSE)

\* C24: no string literal located inside an interpolated sub-expression of a
\* template literal is passed to the rewriter; only the quasi segments are.
C24_TemplateQuasisOnly ==
    mpc \in {"visit", "visited"} =>
        \A t \in {x \in NodesOf(module.root) : x.kind = "Tpl"} :
            \A k \in 1..Len(t.kids) :
                \A n \in {x \in NodesOf(t.kids[k]) : x.kind = "Str"} :
                    \A c \in 1..Len(calls) : calls[c].id # n.ids[1]

\* the string literals of the module, each with: inside (a class-bearing
\* ancestor), nested (a conditional ancestor that has a class-bearing
\* ancestor), bare (a conditional ancestor and no class-bearing ancestor)
RECURSIVE StrLeaves(_, _, _, _)
StrLeaves(node, inside, nested, cond) ==
    IF node.kind = "Str"
    THEN {[id |-> node.ids[1], inside |-> inside, nested |-> nested,
           bare |-> cond /\ ~inside]}
    ELSE UNION {StrLeaves(node.kids[k], inside \/ ClassBearing(node),
                          nested \/ (Conditional(node) /\ inside),
                          cond \/ Conditional(node)) : k \in 1..Len(node.kids)}

\* C25: when a string literal inside a ternary or logical expression is
\* visited, and that expression is nested at any depth inside a class-bearing
\* context, ConditionalExpression is on the stack and the literal is
\* classified under the class-bearing rule; when the expression is outside
\* any class-bearing context nothing was pushed and the literal is classified
\* under the General rule.
C25_ConditionalsKeepContext ==
    mpc \in {"visit", "visited"} =>
        \A l \in StrLeaves(module.root, FALSE, FALSE, FALSE) :
            LET rewritten == \E c \in 1..Len(calls) : calls[c].id = l.id
                value == module.lits[l.id]
            IN  /\ (Visiting({"Str"}) /\ todo[1].node.ids[1] = l.id /\ l.nested) =>
                      /\ is_in_class_context(context_stack)
                      /\ \E d \in 1..Len(context_stack) :
                            context_stack[d] = "ConditionalExpression"
                /\ (Visiting({"Str"}) /\ todo[1].node.ids[1] = l.id /\ l.bare) =>
                      context_stack = <<"General">>
                /\ (mpc = "visited" /\ l.nested) =>
                      (rewritten <=>
                          looks_like_classes(value, <<"General", "JsxClassAttribute",
                                                    "ConditionalExpression">>))
                /\ (mpc = "visited" /\ l.bare) =>
                      (rewritten <=> looks_like_classes(value, <<"General">>))

\* a literal two conditionals deep under a class attribute, about to be
\* classified, which the General rule refuses and the class rule accepts
C25_Witness ==
    /\ Visiting({"Str"})
    /\ \E l \in StrLeaves(module.root, FALSE, FALSE, FALSE) :
          l.id = todo[1].node.ids[1] /\ l.nested
    /\ Cardinality({d \in 1..Len(context_stack) :
                       context_stack[d] = "ConditionalExpression"}) = 2
    /\ looks_like_classes(strs[todo[1].node.ids[1]], context_stack)
    /\ ~looks_like_classes(strs[todo[1].node.ids[1]], <<"General">>)

\* C26: a direct string literal value of a property named className or class
\* is passed to the rewriter exactly once, by visit_mut_prop, and is not
\* visited again as a plain string literal.
C26_ClassPropertyLiteralOnce ==
    mpc = "visited" =>
        \A p \in {x \in NodesOf(module.root) :
                     /\ x.kind = "KeyValueProp" /\ x.name \in {"className", "class"}
                     /\ x.kids[1].kind = "Str"} :
            LET cs == {c \in 1..Len(calls) : calls[c].id = p.kids[1].ids[1]} IN
            /\ Cardinality(cs) = 1
            /\ \A c \in cs : calls[c].site = "visit_mut_prop"

(***************************************************************************)
(* TailwindExtractor driven call by call, extractor.rs and manifest.rs     *)
(***************************************************************************)
\* CHARS of to_base62
Base62Chars ==
    <<"0", "1", "2", "3", "4", "5", "6", "7", "8", "9", "A", "B", "C", "D", "E", "F",
      "G", "H", "I", "J", "K", "L", "M", "N", "O", "P", "Q", "R", "S", "T", "U", "V",
      "W", "X", "Y", "Z", "a", "b", "c", "d", "e", "f", "g", "h", "i", "j", "k", "l",
      "m", "n", "o", "p", "q", "r", "s", "t", "u", "v", "w", "x", "y", "z">>

\* to_base62: the digits are pushed lowest first and then reversed
to_base62(num) ==
    LET RECURSIVE Pushed(_)
        Pushed(n) == IF n = 0 THEN <<>>
                     ELSE <<Base62Chars[(n % 62) + 1]>> \o Pushed(n \div 62)
        digits == Pushed(num)
    IN  IF num = 0 THEN <<"0">>
        ELSE [i \in 1..Len(digits) |-> digits[Len(digits) + 1 - i]]

\* the 64-bit digest of DefaultHasher, folded into 0..HashRange-1
HashRange == 4000

\* DefaultHasher fed the seed and then the bytes of the class
hash_of(seed, class) ==
    LET Code(c) == IF \E i \in 1..62 : Base62Chars[i] = c
                   THEN CHOOSE i \in 1..62 : Base62Chars[i] = c ELSE 63
        RECURSIVE Fed(_, _)
        Fed(h, rest) == IF rest = <<>> THEN h
                        ELSE Fed((h * 67 + Code(Head(rest))) % HashRange, Tail(rest))
    IN  Fed(seed % HashRange, class)

\* an alias numbered by the size of the map so far
obfuscate_class_Sequential(class, config) == config.prefix \o to_base62(Len(omap))

\* TailwindExtractor::obfuscate_class
obfuscate_class(class, config) == config.prefix \o to_base62(hash_of(config.seed, class))

\* a loop that fills the map and leaves the records as they are
generate_obfuscation_map_MapOnly(registry, map, config) ==
    LET RECURSIVE Loop(_, _)
        Loop(m, i) ==
            IF i > Len(registry) THEN [classes |-> registry, obfuscation_map |-> m]
            ELSE LET class == registry[i].key
                     obfuscated == obfuscate_class(class, config)
                 IN  Loop(IF \E j \in 1..Len(m) : m[j].key = class
                          THEN [j \in 1..Len(m) |->
                                   IF m[j].key = class
                                   THEN [key |-> class, value |-> obfuscated] ELSE m[j]]
                          ELSE Append(m, [key |-> class, value |-> obfuscated]), i + 1)
    IN  Loop(map, 1)

\* generate_obfuscation_map: the registry and the map after the loop
generate_obfuscation_map(registry, map, config) ==
    LET RECURSIVE Loop(_, _, _)
        Loop(reg, m, i) ==
            IF i > Len(reg) THEN [classes |-> reg, obfuscation_map |-> m]
            ELSE LET class == reg[i].key
                     obfuscated == obfuscate_class(class, config)
                     inserted ==
                        IF \E j \in 1..Len(m) : m[j].key = class
                        THEN [j \in 1..Len(m) |->
                                 IF m[j].key = class
                                 THEN [key |-> class, value |-> obfuscated] ELSE m[j]]
                        ELSE Append(m, [key |-> class, value |-> obfuscated])
                 IN  Loop([reg EXCEPT ![i].obfuscated = obfuscated], inserted, i + 1)
    IN  Loop(registry, map, 1)

\* ManifestBuilder::with_class_info on the map built at extractor.rs:196-199
with_class_info(class_info_map) ==
    [i \in 1..Len(class_info_map) |->
        [name |-> class_info_map[i].name,
         count |-> Len(class_info_map[i].locations),
         files |-> class_info_map[i].locations]]

\* TailwindExtractor::generate_manifest_with_stats
generate_manifest_with_stats(registry, map, config, files_processed) ==
    [files_processed |-> files_processed,
     classes_extracted |-> Len(registry),
     classes |-> with_class_info([i \in 1..Len(registry) |->
                    [name |-> registry[i].key, locations |-> registry[i].files]]),
     mappings |-> IF config.enabled /\ map # <<>> THEN map ELSE <<>>]

\* ---- the calls made: a few classes (two the oracle accepts, one it refuses,
\* ---- one invalid, the empty one), two files, a few configurations
MaxCount == 2
ExtractorClasses ==
    {<<"p">>, <<"a", "b">>, <<"[">>, <<"<">>, <<>>, [i \in 1..MaxClassLen + 1 |-> "a"]}
ExtractorFiles == {"a.tsx", "b.tsx"}
ObfuscationConfigs ==
    {[enabled |-> FALSE, prefix |-> <<"t", "w">>, seed |-> 4919],
     [enabled |-> TRUE, prefix |-> <<"t", "w">>, seed |-> 4919],
     [enabled |-> TRUE, prefix |-> <<"c">>, seed |-> 48879]}

InitExtractor ==
    /\ PipeIdle /\ PathIdle /\ WriteIdle /\ RewriteIdle /\ MutIdle /\ ProgIdle /\ XformIdle
    /\ ocfg \in ObfuscationConfigs
    /\ oreg = <<>> /\ omap = <<>> /\ olog = {} /\ oman = <<>> /\ opc = "call"

extractorRest ==
    <<pipeVars, pathVars, writeVars, rewriteVars, mutVars, progVars, xformVars>>

AddClass(class, file_path) ==
    /\ opc # "off"
    /\ \A i \in 1..Len(oreg) : oreg[i].original = class => oreg[i].count < MaxCount
    /\ oreg' = add_class(oreg, class, file_path)
    /\ opc' = "call" /\ oman' = <<>>
    /\ UNCHANGED <<ocfg, omap, olog, extractorRest>>

\* add_classes with a list of two classes
AddClassList(class_list, file_path) ==
    /\ opc # "off"
    /\ LET added == add_classes(oreg, class_list, file_path) IN
       /\ \A i \in 1..Len(added) : added[i].count <= MaxCount
       /\ oreg' = added
    /\ opc' = "call" /\ oman' = <<>>
    /\ UNCHANGED <<ocfg, omap, olog, extractorRest>>

GenerateCss ==
    /\ opc # "off"
    /\ IF oreg # <<>> /\ ocfg.enabled
       THEN LET g == generate_obfuscation_map(oreg, omap, ocfg) IN
            /\ oreg' = g.classes
            /\ omap' = g.obfuscation_map
            /\ olog' = olog \cup {[seed |-> ocfg.seed, prefix |-> ocfg.prefix,
                                   class |-> g.classes[i].original,
                                   alias |-> g.classes[i].obfuscated,
                                   by |-> "generate_obfuscation_map"] :
                                  i \in 1..Len(g.classes)}
       ELSE UNCHANGED <<oreg, omap, olog>>
    /\ opc' = "generate_css" /\ oman' = <<>>
    /\ UNCHANGED <<ocfg, extractorRest>>

GenerateManifest(files_processed) ==
    /\ opc # "off"
    /\ oman' = <<generate_manifest_with_stats(oreg, omap, ocfg, files_processed)>>
    /\ opc' = "generate_manifest"
    /\ UNCHANGED <<ocfg, oreg, omap, olog, extractorRest>>

Reset ==
    /\ opc # "off"
    /\ oreg' = <<>> /\ omap' = <<>>
    /\ opc' = "call" /\ oman' = <<>>
    /\ UNCHANGED <<ocfg, olog, extractorRest>>

\* the associated function called on its own, as test_obfuscation calls it
ObfuscateClass(class) ==
    /\ opc # "off"
    /\ olog' = olog \cup {[seed |-> ocfg.seed, prefix |-> ocfg.prefix, class |-> class,
                           alias |-> obfuscate_class(class, ocfg), by |-> "test"]}
    /\ opc' = "call" /\ oman' = <<>>
    /\ UNCHANGED <<ocfg, oreg, omap, extractorRest>>

NextExtractor ==
    \/ \E class \in ExtractorClasses, file_path \in ExtractorFiles :
          AddClass(class, file_path)
    \/ \E class_list \in {<<<<"p">>, <<"a", "b">>>>, <<<<"<">>, <<"p">>>>,
                           <<<<"p">>, <<"p">>>>, <<<<"[">>, <<>>>>},
          file_path \in ExtractorFiles :
          AddClassList(class_list, file_path)
    \/ GenerateCss
    \/ \E files_processed \in {0, 2} : GenerateManifest(files_processed)
    \/ Reset
    \/ \E class \in {<<"p">>, <<"a", "b">>} : ObfuscateClass(class)

SpecExtractor == InitExtractor /\ [][NextExtractor]_vars

C20_ManifestFaithful ==
    opc = "generate_manifest" =>
        LET m == oman[1] IN
        /\ Len(m.classes) = Len(oreg)
        /\ \A i \in 1..Len(oreg) :
              /\ m.classes[i].name = oreg[i].original
              /\ m.classes[i].count = oreg[i].count
              /\ m.classes[i].files = oreg[i].files
        /\ m.classes_extracted = Len(m.classes)

\* what does hold: the keys, the files and the number of entries agree, and
\* an entry's count is the number of files of the class
ManifestKeysAndFilesFaithful ==
    opc = "generate_manifest" =>
        LET m == oman[1] IN
        /\ Len(m.classes) = Len(oreg)
        /\ \A i \in 1..Len(oreg) :
              /\ m.classes[i].name = oreg[i].original
              /\ m.classes[i].count = Len(oreg[i].files)
              /\ m.classes[i].files = oreg[i].files
        /\ m.classes_extracted = Len(m.classes)

\* C28: immediately after generate_css on a non-empty registry with
\* obfuscation enabled, the obfuscation map has exactly the registry's keys,
\* and for every class both the map entry and the record's obfuscated field
\* equal obfuscate_class of it; with obfuscation disabled the map is empty
\* and every record's obfuscated field is None after any calls.
C28_ObfuscationMapComplete ==
    /\ (opc = "generate_css" /\ oreg # <<>> /\ ocfg.enabled) =>
          /\ Len(omap) = Len(oreg)
          /\ {omap[j].key : j \in 1..Len(omap)} = {oreg[i].key : i \in 1..Len(oreg)}
          /\ \A j \in 1..Len(omap) : omap[j].value = obfuscate_class(omap[j].key, ocfg)
          /\ \A i \in 1..Len(oreg) :
                oreg[i].obfuscated = obfuscate_class(oreg[i].key, ocfg)
    /\ (opc # "off" /\ ~ocfg.enabled) =>
          /\ omap = <<>>
          /\ \A i \in 1..Len(oreg) : oreg[i].obfuscated = <<>>

\* generate_css has just run over a registry of two classes, one of them
\* added after an earlier generate_css
C28_Witness ==
    /\ opc = "generate_css" /\ ocfg.enabled
    /\ Len(oreg) = 2 /\ Len(omap) = 2
    /\ \E e \in olog : e.by = "generate_obfuscation_map" /\ e.class = oreg[1].key
    /\ oreg[2].obfuscated # <<>>

\* C29: after any sequence of add_class, add_classes and reset calls, every
\* record of the registry has key = original, a key that is non-empty, at
\* most 100 bytes long and free of < > { } ;, a files list without
\* duplicates, and 1 <= |files| <= count; add_class with an empty, invalid
\* or untraceable class leaves the registry as it is.
C29_RegistryRecords ==
    opc # "off" =>
        /\ \A i \in 1..Len(oreg) :
              /\ oreg[i].key = oreg[i].original
              /\ oreg[i].key # <<>>
              /\ Len(oreg[i].key) <= MaxClassLen
              /\ \A k \in 1..Len(oreg[i].key) : oreg[i].key[k] \notin DangerousChars
              /\ \A a, b \in 1..Len(oreg[i].files) :
                    oreg[i].files[a] = oreg[i].files[b] => a = b
              /\ 1 <= Len(oreg[i].files)
              /\ Len(oreg[i].files) <= oreg[i].count
              /\ \A j \in 1..Len(oreg) : oreg[j].key = oreg[i].key => j = i
        /\ \A class \in ExtractorClasses, file_path \in ExtractorFiles :
              (class = <<>> \/ ~is_valid_class(class) \/ ~trace(class, FALSE).ok) =>
                  add_class(oreg, class, file_path) = oreg

\* one class seen twice in one file, another seen in two files
C29_Witness ==
    /\ opc = "call" /\ Len(oreg) = 2
    /\ \E i, j \in 1..Len(oreg) :
          /\ oreg[i].count = 2 /\ Len(oreg[i].files) = 1
          /\ oreg[j].count = 2 /\ Len(oreg[j].files) = 2

(***************************************************************************)
(* TailwindTransformer and transform_source, ast_transformer.rs            *)
(*                                                                         *)
(* The transformer keeps no context: its visit is a function of the tree.  *)
(* A source is [parses, root, lits]; nodes are those of the mutator, with  *)
(* ImportDecl (ids: the module specifier), JsxRuntimeCall, and a           *)
(* KeyValueProp whose ids hold the key when the key is a string.           *)
(***************************************************************************)
\* process_string and extract_classes on literal i, and the assignment of
\* the processed value to the node
process_string(st, i, obfuscate) ==
    LET value == st.strs[i]
        r == trace(value, obfuscate)
        rewritten == IF r.ok THEN r.val ELSE value
        toks == split_whitespace(value)
        RECURSIVE Inserted(_, _)
        Inserted(set, rest) ==
            IF rest = <<>> THEN set
            ELSE Inserted(IF Head(rest) \in Range(set) THEN set
                          ELSE Append(set, Head(rest)), Tail(rest))
    IN  [strs |-> [st.strs EXCEPT ![i] = rewritten],
         classes |-> Inserted(st.classes, toks),
         total_count |-> st.total_count + Len(toks)]

\* impl VisitMut for TailwindTransformer, and the generated handlers of the
\* nodes it does not override (an import declaration reaches its src through
\* visit_mut_str)
RECURSIVE transformer_visit(_, _, _)
transformer_visit(node, st, obfuscate) ==
    LET RECURSIVE Strings(_, _)
        Strings(state, ids) ==
            IF ids = <<>> THEN state
            ELSE Strings(process_string(state, Head(ids), obfuscate), Tail(ids))
        RECURSIVE Children(_, _)
        Children(state, kids) ==
            IF kids = <<>> THEN state
            ELSE Children(transformer_visit(Head(kids), state, obfuscate), Tail(kids))
    IN  CASE node.kind \in {"Str", "ImportDecl"} -> Strings(st, node.ids)
          [] node.kind = "Tpl" -> Strings(st, node.ids)
          [] node.kind = "KeyValueProp" -> Children(Strings(st, node.ids), node.kids)
          [] node.kind = "JsxRuntimeCall" ->
                IF Len(node.kids) >= 2
                THEN transformer_visit(node.kids[2], st, obfuscate) ELSE st
          [] OTHER -> Children(st, node.kids)

\* a transform_source that visits whatever the parser made of the text
transform_source_Lenient(source, obfuscate) ==
    LET st == transformer_visit(source.root,
                  [strs |-> source.lits, classes |-> <<>>, total_count |-> 0],
                  obfuscate)
    IN  [ok |-> TRUE, code |-> [source EXCEPT !.lits = st.strs],
         classes |-> st.classes, original_count |-> st.total_count]

\* transform_source: the original text on a parse error, else the emitted
\* module and the metadata
transform_source(source, obfuscate) ==
    IF ~source.parses
    THEN [ok |-> TRUE, code |-> source, classes |-> <<>>, original_count |-> 0]
    ELSE LET st == transformer_visit(source.root,
                       [strs |-> source.lits, classes |-> <<>>, total_count |-> 0],
                       obfuscate)
         IN  [ok |-> TRUE, code |-> [source EXCEPT !.lits = st.strs],
              classes |-> st.classes, original_count |-> st.total_count]

Sources ==
    LET N(kind, name, ids, kids) ==
            [kind |-> kind, name |-> name, ids |-> ids, kids |-> kids]
        Str(i) == N("Str", "", <<i>>, <<>>)
        Import(i) == N("ImportDecl", "", <<i>>, <<>>)
        Shapes ==
            {[n |-> 1, root |-> Import(1)],
             [n |-> 2, root |-> N("Other", "", <<>>,
                                  <<Import(1), N("JSXAttr", "className", <<>>,
                                                 <<Str(2)>>)>>)],
             [n |-> 2, root |-> N("Tpl", "", <<1>>, <<Str(2)>>)],
             [n |-> 2, root |-> N("KeyValueProp", "", <<1>>, <<Str(2)>>)],
             [n |-> 2, root |-> N("JsxRuntimeCall", "jsx", <<>>,
                                  <<Str(1), N("KeyValueProp", "className", <<>>,
                                              <<Str(2)>>)>>)],
             [n |-> 2, root |-> N("CondExpr", "", <<>>,
                                  <<N("Ident", "x", <<>>, <<>>), Str(1), Str(2)>>)]}
    IN  UNION {{[parses |-> ok, root |-> sh.root, lits |-> l] :
                   l \in [1..sh.n -> LitValues], ok \in BOOLEAN} : sh \in Shapes}

InitTransform ==
    /\ PipeIdle /\ PathIdle /\ WriteIdle /\ RewriteIdle /\ MutIdle /\ ObfIdle /\ ProgIdle
    /\ tsrc \in Sources /\ tobf \in BOOLEAN /\ tret = <<>> /\ tpc = "call"

TransformSource ==
    /\ tpc = "call"
    /\ tret' = transform_source(tsrc, tobf)
    /\ tpc' = "done"
    /\ UNCHANGED <<tsrc, tobf, pipeVars, pathVars, writeVars, rewriteVars, mutVars,
                   obfVars, progVars>>

SpecTransform == InitTransform /\ [][TransformSource]_vars

\* C21: transform_source on input that fails to parse returns success with
\* the source text unchanged, an empty class list and original_count 0; a
\* parse failure never becomes an error.
C21_ParseFailureReturnsSource ==
    (tpc = "done" /\ ~tsrc.parses) =>
        /\ tret.ok
        /\ tret.code = tsrc
        /\ tret.classes = <<>>
        /\ tret.original_count = 0

\* an unparseable text that holds a string a successful parse would extract
C21_Witness ==
    /\ tpc = "done" /\ ~tsrc.parses /\ tret.ok
    /\ \E i \in DOMAIN tsrc.lits : split_whitespace(tsrc.lits[i]) # <<>>
    /\ transform_source_Lenient(tsrc, tobf).classes # <<>>

\* C22: for a source with import declarations, transform_source leaves each
\* import's module specifier unmodified and adds none of its tokens to the
\* extracted classes or to original_count (stated for the specifier itself,
\* and for the metadata of a source whose only strings are specifiers).
C22_ImportSpecifiersUntouched ==
    tpc = "done" =>
        LET RECURSIVE Imports(_)
            Imports(node) ==
                (IF node.kind = "ImportDecl" THEN {node.ids[1]} ELSE {})
                \cup UNION {Imports(node.kids[k]) : k \in 1..Len(node.kids)}
            specifiers == Imports(tsrc.root)
        IN  /\ \A i \in specifiers : tret.code.lits[i] = tsrc.lits[i]
            /\ (specifiers = DOMAIN tsrc.lits) =>
                  (tret.classes = <<>> /\ tret.original_count = 0)

(***************************************************************************)
(* extract_strings_parallel_with_progress, lib.rs: one task per file, a    *)
(* shared counter behind a mutex, the progress bar's position              *)
(***************************************************************************)
NumTasks == 2

ProgressKinds == {"empty", "ok", "bad"}

Tasks == 1..Len(pkind)

InitProgress ==
    /\ PipeIdle /\ PathIdle /\ WriteIdle /\ RewriteIdle /\ MutIdle /\ ObfIdle /\ XformIdle
    /\ pbar \in BOOLEAN
    /\ pkind \in UNION {[1..n -> ProgressKinds] : n \in 1..NumTasks}
    /\ ptask = [i \in 1..Len(pkind) |-> "pending"]
    /\ processed = 0 /\ holder = 0 /\ pb_position = 0 /\ pb_last = 0
    /\ incs = [i \in 1..Len(pkind) |-> 0]

progRest ==
    <<pbar, pkind, pipeVars, pathVars, writeVars, rewriteVars, mutVars, obfVars, xformVars>>

\* a lock that does not wait for the holder
MutexLock_Unguarded(i) == holder' = i

\* processed.lock().unwrap()
MutexLock(i) == holder = 0 /\ holder' = i

\* the closure starts on a file: fs::metadata, and the early return of an
\* empty file
TaskBegin(i) ==
    /\ ptask[i] = "pending"
    /\ ptask' = [ptask EXCEPT ![i] =
                    IF pkind[i] = "empty" THEN (IF pbar THEN "wait" ELSE "done")
                    ELSE "extract"]
    /\ UNCHANGED <<processed, holder, pb_position, pb_last, incs, progRest>>

\* extract_strings_from_file returns, with the mutex not taken
TaskExtract(i) ==
    /\ ptask[i] = "extract"
    /\ ptask' = [ptask EXCEPT ![i] = IF pbar THEN "wait" ELSE "done"]
    /\ UNCHANGED <<processed, holder, pb_position, pb_last, incs, progRest>>

TaskLock(i) ==
    /\ ptask[i] = "wait"
    /\ MutexLock(i)
    /\ ptask' = [ptask EXCEPT ![i] = "locked"]
    /\ UNCHANGED <<processed, pb_position, pb_last, incs, progRest>>

\* *count += 1
TaskIncrement(i) ==
    /\ ptask[i] = "locked"
    /\ processed' = processed + 1
    /\ incs' = [incs EXCEPT ![i] = @ + 1]
    /\ ptask' = [ptask EXCEPT ![i] = "counted"]
    /\ UNCHANGED <<holder, pb_position, pb_last, progRest>>

\* pb.set_position(*count as u64)
TaskSetPosition(i) ==
    /\ ptask[i] = "counted"
    /\ pb_last' = pb_position
    /\ pb_position' = processed
    /\ ptask' = [ptask EXCEPT ![i] = "reported"]
    /\ UNCHANGED <<processed, holder, incs, progRest>>

\* pb.set_message, then the guard goes out of scope and the closure returns
TaskUnlock(i) ==
    /\ ptask[i] = "reported"
    /\ holder' = IF holder = i THEN 0 ELSE holder
    /\ ptask' = [ptask EXCEPT ![i] = "done"]
    /\ UNCHANGED <<processed, pb_position, pb_last, incs, progRest>>

\* collect() into a Result: once a task has returned Err, a file not yet
\* started may be left out
TaskSkipped(i) ==
    /\ ptask[i] = "pending"
    /\ \E j \in Tasks : ptask[j] = "done" /\ pkind[j] = "bad"
    /\ ptask' = [ptask EXCEPT ![i] = "skipped"]
    /\ UNCHANGED <<processed, holder, pb_position, pb_last, incs, progRest>>

NextProgress ==
    \E i \in Tasks :
        \/ TaskBegin(i) \/ TaskExtract(i) \/ TaskLock(i) \/ TaskIncrement(i)
        \/ TaskSetPosition(i) \/ TaskUnlock(i) \/ TaskSkipped(i)

SpecProgress == InitProgress /\ [][NextProgress]_vars

\* C27: with a progress bar attached, a task increments the shared counter
\* at most once and exactly once by the time it returns, only while it holds
\* the mutex and only after its own metadata check and extraction finished
\* (the mutex is not held during extraction); the counter never exceeds the
\* number of files, the reported position never decreases, and when every
\* task has returned Ok the counter and the position equal the number of
\* files.
C27_ProgressCounter ==
    (pkind # <<>> /\ pbar) =>
        LET RECURSIVE Sum(_)
            Sum(k) == IF k = 0 THEN 0 ELSE incs[k] + Sum(k - 1)
        IN  /\ \A i \in Tasks :
                  /\ ptask[i] \in {"locked", "counted", "reported"} => holder = i
                  /\ ptask[i] \in {"pending", "extract", "wait", "skipped"} =>
                        (holder # i /\ incs[i] = 0)
                  /\ ptask[i] = "locked" => incs[i] = 0
                  /\ ptask[i] \in {"counted", "reported", "done"} => incs[i] = 1
            /\ processed = Sum(Len(pkind))
            /\ processed <= Len(pkind)
            /\ pb_last <= pb_position /\ pb_position <= processed
            /\ (\A i \in Tasks : ptask[i] = "done" /\ pkind[i] # "bad") =>
                  (processed = Len(pkind) /\ pb_position = Len(pkind))

\* one task reports while the other, its extraction finished, waits for the
\* mutex
C27_Witness ==
    /\ pbar /\ Len(pkind) = 2
    /\ \E i, j \in Tasks :
          /\ ptask[i] = "reported" /\ ptask[j] = "wait"
          /\ pkind[j] = "ok" /\ holder = i
          /\ processed = 1 /\ pb_position = 1

====
